---- MODULE Spec2Model ----
(***************************************************************************)
(* Model of llm-chess-arena: the LLM move-elicitation pipeline (move-text  *)
(* extractor, sanitizer, move normalizer, prompt builder, retry/voting     *)
(* orchestrator).                                                          *)
(*                                                                         *)
(* Texts are sequences of one-character strings, so that extraction,       *)
(* sanitization and notation parsing are computed character by character   *)
(* as the Python code computes them.  Prompts are sequences of strings:    *)
(* the literal parts of a template are single multi-character strings,     *)
(* substituted values are spliced in character by character.               *)
(***************************************************************************)
EXTENDS Integers, Sequences, FiniteSets, TLC

(***************************************************************************)
(* Text primitives (Python str methods and the re calls the code uses)     *)
(***************************************************************************)

\* Optional[str]: Python None versus a str (possibly empty).
None == [some |-> FALSE, text |-> <<>>]

Some(t) == [some |-> TRUE, text |-> t]

\* The backspace control character that the non-raw literal "\boxed{" holds.
BACKSPACE == "BS"

\* The backquote character (not writable in a TLA+ string).
BACKTICK == "BQ"

UpperChars == <<"A", "B", "C", "D", "E", "F", "G", "H", "I", "J", "K", "L", "M", "N", "O", "P", "Q", "R", "S", "T", "U", "V", "W", "X", "Y", "Z">>

LowerChars == <<"a", "b", "c", "d", "e", "f", "g", "h", "i", "j", "k", "l", "m", "n", "o", "p", "q", "r", "s", "t", "u", "v", "w", "x", "y", "z">>

Digits == {"0", "1", "2", "3", "4", "5", "6", "7", "8", "9"}

Whitespace == {" ", "\n", "\t", "\r"}

Range(s) == {s[i] : i \in 1..Len(s)}

MaxOf(S) == CHOOSE m \in S : \A x \in S : x <= m

LowerChar(c) == IF \E i \in 1..26 : UpperChars[i] = c THEN LowerChars[CHOOSE i \in 1..26 : UpperChars[i] = c] ELSE c

UpperChar(c) == IF \E i \in 1..26 : LowerChars[i] = c THEN UpperChars[CHOOSE i \in 1..26 : LowerChars[i] = c] ELSE c

\* str.lower()
Lower(s) == [i \in 1..Len(s) |-> LowerChar(s[i])]

\* str.upper()
Upper(s) == [i \in 1..Len(s) |-> UpperChar(s[i])]

\* s[i:] with a 0-based Python index i
From(s, i) == SubSeq(s, i + 1, Len(s))

StartsAt(s, i, m) == /\ i + Len(m) - 1 <= Len(s)
                     /\ \A k \in 1..Len(m) : s[i + k - 1] = m[k]

\* str.rfind(m): 0-based index of the last occurrence of m, -1 when absent
RFind(s, m) == LET idxs == {i \in 1..(Len(s) - Len(m) + 1) : StartsAt(s, i, m)} IN IF idxs = {} THEN -1 ELSE MaxOf(idxs) - 1

\* str.endswith(m)
EndsWith(s, m) == Len(s) >= Len(m) /\ StartsAt(s, Len(s) - Len(m) + 1, m)

RECURSIVE LStrip(_, _)
LStrip(s, chars) == IF s # <<>> /\ Head(s) \in chars THEN LStrip(Tail(s), chars) ELSE s

RECURSIVE RStrip(_, _)
RStrip(s, chars) == IF s # <<>> /\ s[Len(s)] \in chars THEN RStrip(SubSeq(s, 1, Len(s) - 1), chars) ELSE s

\* str.strip(chars); str.strip() is Strip(s, Whitespace)
Strip(s, chars) == RStrip(LStrip(s, chars), chars)

\* str.replace(m, "")
RECURSIVE RemoveAll(_, _)
RemoveAll(s, m) == IF Len(s) < Len(m) \/ s = <<>> THEN s ELSE IF StartsAt(s, 1, m) THEN RemoveAll(From(s, Len(m)), m) ELSE <<Head(s)>> \o RemoveAll(Tail(s), m)

\* str.replace(a, b) for single characters
ReplaceChar(s, a, b) == [i \in 1..Len(s) |-> IF s[i] = a THEN b ELSE s[i]]

\* re.sub(r"<.*?>", "", s): each "<" up to the nearest following ">" goes
RECURSIVE RemoveTags(_)
RemoveTags(s) == IF s = <<>> THEN s ELSE IF Head(s) = "<" /\ \E j \in 2..Len(s) : s[j] = ">" /\ \A k \in 2..j : s[k] # "\n" THEN RemoveTags(From(s, CHOOSE j \in 2..Len(s) : s[j] = ">" /\ \A k \in 2..(j - 1) : s[k] # ">")) ELSE <<Head(s)>> \o RemoveTags(Tail(s))

\* re.split(r"[\s,;.!]", s)[0]
RECURSIVE FirstPart(_)
FirstPart(s) == IF s = <<>> \/ Head(s) \in Whitespace \cup {",", ";", ".", "!"} THEN <<>> ELSE <<Head(s)>> \o FirstPart(Tail(s))

(***************************************************************************)
(* Move-text extractor and sanitizer (GameArenaLLMMoveHandler)             *)
(***************************************************************************)

\* the markers list, lower-cased as the loop lower-cases it, in list order
markers == << <<"f", "i", "n", "a", "l", " ", "a", "n", "s", "w", "e", "r", ":">>, <<"f", "i", "n", "a", "l", " ", "a", "n", "s", "w", "e", "r", ":">>, <<"f", "i", "n", "a", "l", " ", "a", "n", "s", "w", "e", "r", ":">>, <<"t", "h", "e", " ", "f", "i", "n", "a", "l", " ", "a", "n", "s", "w", "e", "r", " ", "i", "s">>, <<"t", "h", "e", " ", "f", "i", "n", "a", "l", " ", "a", "n", "s", "w", "e", "r", " ", "i", "s">>, <<"m", "y", " ", "f", "i", "n", "a", "l", " ", "a", "n", "s", "w", "e", "r", " ", "i", "s">>, <<"m", "y", " ", "f", "i", "n", "a", "l", " ", "a", "n", "s", "w", "e", "r", " ", "i", "s">> >>

\* the characters the short-response fallback looks for
MoveLikeChars == {"a", "b", "c", "d", "e", "f", "g", "h", "N", "B", "R", "Q", "K", "O", "1", "2", "3", "4", "5", "6", "7", "8", "x", "=", "+", "-", "#"}

\* the length bound of the short-response fallback
ShortResponseLen == 10

\* the first marker of the list that occurs in the response (0 when none does)
FoundMarker(response) == LET hits == {i \in 1..Len(markers) : RFind(Lower(response), markers[i]) # -1} IN IF hits = {} THEN 0 ELSE CHOOSE i \in hits : \A j \in hits : i <= j

\* the chain of .strip(" .").replace(...) calls and the re.sub on the text after the marker
StripArtifacts(text) == RemoveTags(ReplaceChar(RemoveAll(RemoveAll(RemoveAll(RemoveAll(RemoveAll(RemoveAll(RemoveAll(RemoveAll(Strip(text, {" ", "."}), <<"$">>), <<"\\", "b", "o", "x", "e", "d", "{">>), <<"\\", "t", "e", "x", "t", "{">>), <<BACKSPACE, "o", "x", "e", "d", "{">>), <<"\t", "e", "x", "t", "{">>), <<"}">>), <<"*">>), <<BACKTICK>>), "\n", " "))

IsCastlingText(raw) == RemoveAll(RemoveAll(Upper(Strip(raw, Whitespace)), <<" ">>), <<"-">>) \in {<<"O", "O">>, <<"O", "O", "O">>}

\* the fallback for a response without marker: a short, space-free text holding a move-like character
ShortResponseFallback(response_stripped) ==
    IF /\ Len(response_stripped) <= ShortResponseLen
       /\ response_stripped # <<>>
       /\ " " \notin Range(response_stripped)
       /\ \E c \in Range(response_stripped) : c \in MoveLikeChars
    THEN Some(response_stripped)
    ELSE None

\* response[index + len(marker):] with index = response.lower().rfind(marker.lower())
TextAfterMarker(response, marker) == From(response, RFind(Lower(response), marker) + Len(marker))

\* the castling branch and the first-token branch on the cleaned text
FirstMoveToken(raw_move_text) ==
    IF IsCastlingText(raw_move_text)
    THEN Some(RemoveAll(Strip(raw_move_text, Whitespace), <<" ">>))
    ELSE Some(FirstPart(Strip(raw_move_text, Whitespace)))

\* the body of the extractor once the marker loop has run (m = 0: no marker found)
ExtractAtMarker(response, m) ==
    IF m = 0 THEN ShortResponseFallback(Strip(response, Whitespace))
    ELSE FirstMoveToken(StripArtifacts(TextAfterMarker(response, markers[m])))

extract_raw_move_text(response) == IF response = <<>> THEN None ELSE ExtractAtMarker(response, FoundMarker(response))

\* the characters _sanitize_move_text deletes
SanitizedAway == {":", ".", "*", ",", "&", "^", "\\", "<", ">", "{", "}", "[", "]", "?", "!"}

RECURSIVE RemoveChars(_, _)
RemoveChars(s, chars) == IF s = <<>> THEN s ELSE IF Head(s) \in chars THEN RemoveChars(Tail(s), chars) ELSE <<Head(s)>> \o RemoveChars(Tail(s), chars)

\* variant: the dots after the move number are optional
MoveNumberRest_dots_optional(s) == LET afterDigits == LStrip(s, Digits) IN IF afterDigits = s THEN None ELSE Some(LStrip(LStrip(afterDigits, {"."}), Whitespace))

\* the re.match of digits, dots, optional whitespace, rest: None when s is not digits then dots, else the rest (group 3)
MoveNumberRest(s) == LET afterDigits == LStrip(s, Digits) IN IF afterDigits = s \/ afterDigits = <<>> \/ Head(afterDigits) # "." THEN None ELSE Some(LStrip(LStrip(afterDigits, {"."}), Whitespace))

DropEnPassantSuffix(s) == IF EndsWith(s, <<"e", "p">>) THEN SubSeq(s, 1, Len(s) - 2) ELSE s

sanitize_move_text(raw_move_text) ==
    IF ~raw_move_text.some \/ raw_move_text.text = <<>> THEN None
    ELSE LET stripped == Strip(raw_move_text.text, Whitespace)
             unnumbered == IF stripped # <<>> /\ Head(stripped) \in Digits THEN MoveNumberRest(stripped) ELSE Some(stripped)
         IN IF ~unnumbered.some THEN None
            ELSE LET sanitized_move_text == DropEnPassantSuffix(RemoveChars(unnumbered.text, SanitizedAway))
                 IN IF sanitized_move_text = <<>> THEN None ELSE Some(Strip(sanitized_move_text, Whitespace))

extract_decision_text(response) == sanitize_move_text(extract_raw_move_text(response))


(***************************************************************************)
(* The position of the decision context and the rules engine's answers on  *)
(* it (python-chess: Move.from_uci, Board.legal_moves, Board.parse_san)    *)
(***************************************************************************)

\* board_in_fen of the decision context: white to move, kingside castling
\* available, knights on b1 and f3 that both reach d2, a pawn about to promote
board_in_fen == "4k3/P7/8/8/8/5N2/4P3/1N2K2R w K - 2 2"

\* move_history_in_uci of the decision context: the two plies that led there
move_history_in_uci == << <<"g", "1", "f", "3">>, <<"d", "8", "e", "8">> >>

player_color == "white"

FILE_NAMES == {"a", "b", "c", "d", "e", "f", "g", "h"}

RANK_NAMES == {"1", "2", "3", "4", "5", "6", "7", "8"}

\* chess.PIECE_SYMBOLS without the leading None
PIECE_SYMBOLS == {"p", "n", "b", "r", "q", "k"}

Move(piece, from_square, to_square, promotion) == [piece |-> piece, from_square |-> from_square, to_square |-> to_square, promotion |-> promotion, drop |-> ""]

\* chess.Move.null()
NullMove == [piece |-> "", from_square |-> <<"a", "1">>, to_square |-> <<"a", "1">>, promotion |-> "", drop |-> ""]

\* board.legal_moves of board_in_fen, with the piece standing on the from-square
legal_moves == {
    Move("k", <<"e", "1">>, <<"d", "1">>, ""), Move("k", <<"e", "1">>, <<"d", "2">>, ""), Move("k", <<"e", "1">>, <<"f", "1">>, ""), Move("k", <<"e", "1">>, <<"f", "2">>, ""), Move("k", <<"e", "1">>, <<"g", "1">>, ""),
    Move("r", <<"h", "1">>, <<"g", "1">>, ""), Move("r", <<"h", "1">>, <<"f", "1">>, ""), Move("r", <<"h", "1">>, <<"h", "2">>, ""), Move("r", <<"h", "1">>, <<"h", "3">>, ""), Move("r", <<"h", "1">>, <<"h", "4">>, ""), Move("r", <<"h", "1">>, <<"h", "5">>, ""), Move("r", <<"h", "1">>, <<"h", "6">>, ""), Move("r", <<"h", "1">>, <<"h", "7">>, ""), Move("r", <<"h", "1">>, <<"h", "8">>, ""),
    Move("n", <<"b", "1">>, <<"a", "3">>, ""), Move("n", <<"b", "1">>, <<"c", "3">>, ""), Move("n", <<"b", "1">>, <<"d", "2">>, ""),
    Move("n", <<"f", "3">>, <<"d", "2">>, ""), Move("n", <<"f", "3">>, <<"d", "4">>, ""), Move("n", <<"f", "3">>, <<"e", "5">>, ""), Move("n", <<"f", "3">>, <<"g", "5">>, ""), Move("n", <<"f", "3">>, <<"h", "4">>, ""), Move("n", <<"f", "3">>, <<"h", "2">>, ""), Move("n", <<"f", "3">>, <<"g", "1">>, ""),
    Move("p", <<"e", "2">>, <<"e", "3">>, ""), Move("p", <<"e", "2">>, <<"e", "4">>, ""),
    Move("p", <<"a", "7">>, <<"a", "8">>, "q"), Move("p", <<"a", "7">>, <<"a", "8">>, "r"), Move("p", <<"a", "7">>, <<"a", "8">>, "b"), Move("p", <<"a", "7">>, <<"a", "8">>, "n")}

\* the squares holding a pawn of the side to move (board.pawns)
pawn_squares == {<<"e", "2">>, <<"a", "7">>}

\* the king's castling moves among the legal moves (board.generate_castling_moves)
IsKingsideCastling(m) == m.piece = "k" /\ m.from_square = <<"e", "1">> /\ m.to_square = <<"g", "1">>

IsQueensideCastling(m) == m.piece = "k" /\ m.from_square = <<"e", "1">> /\ m.to_square = <<"c", "1">>

\* Move.uci()
uci(m) == IF m.drop # "" THEN <<UpperChar(m.drop), "@">> \o m.to_square ELSE IF m.promotion # "" THEN m.from_square \o m.to_square \o <<m.promotion>> ELSE IF m.from_square # m.to_square THEN m.from_square \o m.to_square ELSE <<"0", "0", "0", "0">>

\* legal_moves_in_uci of the decision context (get_legal_moves_in_uci)
legal_moves_in_uci == {uci(m) : m \in legal_moves}

IsSquare(s, i) == i + 1 <= Len(s) /\ s[i] \in FILE_NAMES /\ s[i + 1] \in RANK_NAMES

Invalid == [ok |-> FALSE, move |-> NullMove]

Parsed(m) == [ok |-> TRUE, move |-> m]

\* chess.Move.from_uci: Invalid stands for chess.InvalidMoveError
from_uci(t) ==
    IF t = <<"0", "0", "0", "0">> THEN Parsed(NullMove)
    ELSE IF Len(t) = 4 /\ t[2] = "@"
    THEN IF LowerChar(t[1]) \in PIECE_SYMBOLS /\ IsSquare(t, 3)
         THEN Parsed([piece |-> "", from_square |-> SubSeq(t, 3, 4), to_square |-> SubSeq(t, 3, 4), promotion |-> "", drop |-> LowerChar(t[1])])
         ELSE Invalid
    ELSE IF Len(t) \in {4, 5}
    THEN IF IsSquare(t, 1) /\ IsSquare(t, 3) /\ (Len(t) = 5 => t[5] \in PIECE_SYMBOLS)
         THEN IF SubSeq(t, 1, 2) = SubSeq(t, 3, 4) THEN Invalid
              ELSE Parsed(Move("", SubSeq(t, 1, 2), SubSeq(t, 3, 4), IF Len(t) = 5 THEN t[5] ELSE ""))
         ELSE Invalid
    ELSE Invalid

SameMove(a, b) == a.from_square = b.from_square /\ a.to_square = b.to_square /\ a.promotion = b.promotion /\ a.drop = b.drop

\* Board._from_chess960 in standard mode: king-takes-rook spelling of castling
FromChess960(m) == IF m.promotion = "" /\ m.drop = "" /\ m.from_square = <<"e", "1">> /\ (\E l \in legal_moves : l.piece = "k" /\ l.from_square = <<"e", "1">>)
                   THEN IF m.to_square = <<"h", "1">> THEN [m EXCEPT !.to_square = <<"g", "1">>] ELSE IF m.to_square = <<"a", "1">> THEN [m EXCEPT !.to_square = <<"c", "1">>] ELSE m
                   ELSE m

\* move in board.legal_moves (Board.is_legal)
is_legal(m) == \E l \in legal_moves : SameMove(l, FromChess960(m))

(***************************************************************************)
(* Board.parse_san                                                         *)
(***************************************************************************)

\* one way of reading a text against SAN_REGEX: which optional groups are present
SanShapes == [piece : BOOLEAN, file : BOOLEAN, rank : BOOLEAN, sep : BOOLEAN, eq : BOOLEAN, promo : BOOLEAN, chk : BOOLEAN]

B2N(b) == IF b THEN 1 ELSE 0

\* 1-based positions of the groups under a shape
PosPiece(sh) == 1

PosFile(sh) == 1 + B2N(sh.piece)

PosRank(sh) == PosFile(sh) + B2N(sh.file)

PosSep(sh) == PosRank(sh) + B2N(sh.rank)

PosTo(sh) == PosSep(sh) + B2N(sh.sep)

PosEq(sh) == PosTo(sh) + 2

PosPromo(sh) == PosEq(sh) + B2N(sh.eq)

PosChk(sh) == PosPromo(sh) + B2N(sh.promo)

ShapeLen(sh) == PosChk(sh) + B2N(sh.chk) - 1

\* SAN_REGEX = ^([NBKRQ])?([a-h])?([1-8])?[\-x]?([a-h][1-8])(=?[nbrqkNBRQK])?[\+#]?\Z
FitsShape(s, sh) == /\ Len(s) = ShapeLen(sh)
                    /\ sh.eq => sh.promo
                    /\ sh.piece => s[PosPiece(sh)] \in {"N", "B", "K", "R", "Q"}
                    /\ sh.file => s[PosFile(sh)] \in FILE_NAMES
                    /\ sh.rank => s[PosRank(sh)] \in RANK_NAMES
                    /\ sh.sep => s[PosSep(sh)] \in {"-", "x"}
                    /\ IsSquare(s, PosTo(sh))
                    /\ sh.eq => s[PosEq(sh)] = "="
                    /\ sh.promo => s[PosPromo(sh)] \in {"n", "b", "r", "q", "k", "N", "B", "R", "Q", "K"}
                    /\ sh.chk => s[PosChk(sh)] \in {"+", "#"}

SanMatches(s) == \E sh \in SanShapes : FitsShape(s, sh)

SanShape(s) == CHOOSE sh \in SanShapes : FitsShape(s, sh)

KingsideSan == {<<"O", "-", "O">>, <<"O", "-", "O", "+">>, <<"O", "-", "O", "#">>, <<"0", "-", "0">>, <<"0", "-", "0", "+">>, <<"0", "-", "0", "#">>}

QueensideSan == {<<"O", "-", "O", "-", "O">>, <<"O", "-", "O", "-", "O", "+">>, <<"O", "-", "O", "-", "O", "#">>, <<"0", "-", "0", "-", "0">>, <<"0", "-", "0", "-", "0", "+">>, <<"0", "-", "0", "-", "0", "#">>}

\* the spellings parse_san reads as the null move
NullSan == {<<"-", "-">>, <<"Z", "0">>, <<"0", "0", "0", "0">>, <<"@", "@", "@", "@">>}

SanOk(m) == [ok |-> TRUE, move |-> m, error |-> "None"]

SanError(e) == [ok |-> FALSE, move |-> NullMove, error |-> e]

\* Board.find_move, as parse_san uses it for fully specified moves
find_move(from_square, to_square, promotion) ==
    LET promo == IF promotion = "" /\ from_square \in pawn_squares /\ to_square[2] \in {"1", "8"} THEN "q" ELSE promotion
        m == FromChess960(Move("", from_square, to_square, promo))
    IN IF is_legal(m) THEN SanOk(m) ELSE SanError("IllegalMoveError")

\* the legal moves a SAN text that is no fully specified move can stand for
\* (castling is generated by rook square, so the to-square mask leaves it out)
SanCandidates(s, sh) ==
    LET to_square == SubSeq(s, PosTo(sh), PosTo(sh) + 1)
        promotion == IF sh.promo THEN LowerChar(s[PosPromo(sh)]) ELSE ""
    IN {m \in legal_moves :
          /\ ~IsKingsideCastling(m) /\ ~IsQueensideCastling(m)
          /\ m.to_square = to_square
          /\ m.promotion = promotion
          /\ sh.file => m.from_square[1] = s[PosFile(sh)]
          /\ sh.rank => m.from_square[2] = s[PosRank(sh)]
          /\ IF sh.piece THEN m.piece = LowerChar(s[PosPiece(sh)])
             ELSE m.piece = "p" /\ (~sh.file => m.from_square[1] = to_square[1])}

SanPromotion(s, sh) == IF sh.promo THEN LowerChar(s[PosPromo(sh)]) ELSE ""

\* a fully specified move whose promotion piece find_move filled in is refused
CheckPromotion(found, promotion) == IF found.ok /\ found.move.promotion # promotion THEN SanError("IllegalMoveError") ELSE found

\* the candidate loop: none is illegal, several are ambiguous
UniqueMatch(matched) ==
    IF Cardinality(matched) > 1 THEN SanError("AmbiguousMoveError")
    ELSE IF matched = {} THEN SanError("IllegalMoveError")
    ELSE SanOk(CHOOSE m \in matched : TRUE)

\* parse_san after SAN_REGEX matched with the groups of shape sh
ParseSanMatch(s, sh) ==
    IF ~sh.piece /\ sh.file /\ sh.rank
    THEN CheckPromotion(find_move(SubSeq(s, PosFile(sh), PosFile(sh) + 1), SubSeq(s, PosTo(sh), PosTo(sh) + 1), SanPromotion(s, sh)), SanPromotion(s, sh))
    ELSE UniqueMatch(SanCandidates(s, sh))

parse_san(s) ==
    IF s \in KingsideSan
    THEN IF \E m \in legal_moves : IsKingsideCastling(m) THEN SanOk(CHOOSE m \in legal_moves : IsKingsideCastling(m)) ELSE SanError("IllegalMoveError")
    ELSE IF s \in QueensideSan
    THEN IF \E m \in legal_moves : IsQueensideCastling(m) THEN SanOk(CHOOSE m \in legal_moves : IsQueensideCastling(m)) ELSE SanError("IllegalMoveError")
    ELSE IF ~SanMatches(s)
    THEN IF s \in NullSan THEN SanOk(NullMove) ELSE SanError("InvalidMoveError")
    ELSE ParseSanMatch(s, SanShape(s))

(***************************************************************************)
(* Move normalizer (utils.parse_attempted_move_to_uci)                     *)
(***************************************************************************)

Ok(text) == [ok |-> TRUE, uci |-> text, error |-> "None"]

Raise(e) == [ok |-> FALSE, uci |-> <<>>, error |-> e]

\* the castling aliases are put in upper case, every other text is passed on unstripped
NormalizeCastling(attempted_move) ==
    LET lowered == Lower(Strip(attempted_move, Whitespace))
    IN IF lowered \in {<<"o", "-", "o">>, <<"0", "-", "0">>} THEN <<"O", "-", "O">>
       ELSE IF lowered \in {<<"o", "-", "o", "-", "o">>, <<"0", "-", "0", "-", "0">>} THEN <<"O", "-", "O", "-", "O">>
       ELSE attempted_move

\* the try block: the coordinate reading is returned when it is a legal move; an
\* unparsable text and an illegal coordinate move both raise a ValueError
TryUci(move_normalized) ==
    LET parsed == from_uci(move_normalized)
    IN IF parsed.ok /\ is_legal(parsed.move) THEN Ok(uci(parsed.move)) ELSE Raise("ValueError")

\* the except ValueError block: the SAN reading, with the rules engine's errors renamed
RenameSanError(parsed) == IF parsed.ok THEN Ok(uci(parsed.move)) ELSE Raise(parsed.error)

\* variant: a text that parse_san reads is returned as it was written
SanFallback_as_written(move_normalized) == IF parse_san(move_normalized).ok THEN Ok(move_normalized) ELSE Raise(parse_san(move_normalized).error)

SanFallback(move_normalized) == RenameSanError(parse_san(move_normalized))

\* try ... except ValueError: the handler's result counts only when the try block raised
TryExcept(tried, handled) == IF tried.ok THEN tried ELSE handled

ParseNormalized(move_normalized) == TryExcept(TryUci(move_normalized), SanFallback(move_normalized))

parse_attempted_move_to_uci(attempted_move) == ParseNormalized(NormalizeCastling(attempted_move))


(***************************************************************************)
(* Prompt builder (BaseLLMMoveHandler / GameArenaLLMMoveHandler)           *)
(***************************************************************************)

Lit(text) == [kind |-> "lit", text |-> text]

Field(name) == [kind |-> "field", text |-> name]

GAME_ARENA_PROMPT_TEMPLATE == <<Lit("Let's play chess. The current game state in FEN is:\n"), Field("board_in_fen"), Lit("\nThe moves played so far are:\n"), Field("flattened_move_history_in_uci"), Lit("\nYou are playing as player "), Field("player_color"), Lit(".\nIt is now your turn. Play your strongest move. The move MUST be legal. Reason step by step to come up with your move, then output your final answer in the format \"Final Answer: X\" where X is your chosen move in standard algebraic notation (e.g., e4, Nf3, O-O).")>>

GAME_ARENA_INVALID_MOVE_TEMPLATE == <<Field("last_prompt"), Lit("\n\nYour previously suggested move was not parsable.\nPlease think carefully and generate a new and legal move. Your previous response was:\n"), Field("last_response")>>

GAME_ARENA_ILLEGAL_MOVE_TEMPLATE == <<Field("last_prompt"), Lit("\n\nYour previously suggested move was: "), Field("last_attempted_move"), Lit(", which is an illegal move.\nPlease think carefully and generate a new and legal move.")>>

GAME_ARENA_AMBIGUOUS_MOVE_TEMPLATE == <<Field("last_prompt"), Lit("\n\nYour previously suggested move was: "), Field("last_attempted_move"), Lit(", which is ambiguous (multiple pieces can make this move).\nPlease think carefully and generate a new and unambiguous move.")>>

retry_prompt_templates == [InvalidMoveError |-> GAME_ARENA_INVALID_MOVE_TEMPLATE, IllegalMoveError |-> GAME_ARENA_ILLEGAL_MOVE_TEMPLATE, AmbiguousMoveError |-> GAME_ARENA_AMBIGUOUS_MOVE_TEMPLATE]

Rendered(text) == [ok |-> TRUE, text |-> text, error |-> "None"]

RenderError(e) == [ok |-> FALSE, text |-> <<>>, error |-> e]

RECURSIVE Format(_, _)
Format(template, kwargs) == IF template = <<>> THEN <<>> ELSE (IF Head(template).kind = "lit" THEN <<Head(template).text>> ELSE kwargs[Head(template).text]) \o Format(Tail(template), kwargs)

\* template.format(**kwargs); a field the caller did not supply is a KeyError
fill_prompt_template(template, kwargs) == IF \E i \in 1..Len(template) : template[i].kind = "field" /\ template[i].text \notin DOMAIN kwargs THEN RenderError("KeyError") ELSE Rendered(Format(template, kwargs))

DigitChars == <<"0", "1", "2", "3", "4", "5", "6", "7", "8", "9">>

\* f"{move_num}." for the move numbers of a short game
MoveNumberText(n) == <<DigitChars[n + 1], ".">>

\* the items _flatten_move_history_in_uci collects, joined by single spaces
RECURSIVE FlattenFrom(_, _)
FlattenFrom(history, i) == IF i > Len(history) THEN <<>> ELSE (IF i > 1 THEN <<" ">> ELSE <<>>) \o (IF (i - 1) % 2 = 0 THEN MoveNumberText(((i - 1) \div 2) + 1) \o <<" ">> ELSE <<>>) \o history[i] \o FlattenFrom(history, i + 1)

flatten_move_history_in_uci(history) == FlattenFrom(history, 1)

\* context.model_dump(): the fields a prompt template may name
model_dump == [board_in_fen |-> <<board_in_fen>>, player_color |-> <<player_color>>, legal_moves_in_uci |-> <<"legal_moves_in_uci">>, move_history_in_uci |-> <<"move_history_in_uci">>, time_remaining_in_seconds |-> <<"None">>]

\* kwargs extended by one more keyword argument
With(kwargs, name, value) == [k \in DOMAIN kwargs \cup {name} |-> IF k = name THEN value ELSE kwargs[k]]

\* GameArenaLLMMoveHandler.get_prompt(**context.model_dump())
get_prompt == fill_prompt_template(GAME_ARENA_PROMPT_TEMPLATE, With(model_dump, "flattened_move_history_in_uci", flatten_move_history_in_uci(move_history_in_uci)))

\* variant: each retry prompt starts again from a freshly rendered initial prompt
get_retry_prompt_from_scratch(exception_name, last_prompt, last_response, last_attempted_move) ==
    IF exception_name \notin DOMAIN retry_prompt_templates THEN RenderError("ValueError")
    ELSE fill_prompt_template(retry_prompt_templates[exception_name], With(With(With(model_dump, "last_prompt", get_prompt.text), "last_response", last_response), "last_attempted_move", last_attempted_move))

\* variant: the illegal-move template is used whatever the failure kind
get_retry_prompt_always_illegal(exception_name, last_prompt, last_response, last_attempted_move) ==
    fill_prompt_template(GAME_ARENA_ILLEGAL_MOVE_TEMPLATE, With(With(With(model_dump, "last_prompt", last_prompt), "last_response", last_response), "last_attempted_move", last_attempted_move))

\* BaseLLMMoveHandler.get_retry_prompt
get_retry_prompt(exception_name, last_prompt, last_response, last_attempted_move) ==
    IF exception_name \notin DOMAIN retry_prompt_templates THEN RenderError("ValueError")
    ELSE fill_prompt_template(retry_prompt_templates[exception_name], With(With(With(model_dump, "last_prompt", last_prompt), "last_response", last_response), "last_attempted_move", last_attempted_move))


(***************************************************************************)
(* Decisions, response parsing, majority vote, validation (LLMPlayer)      *)
(***************************************************************************)

\* PlayerDecision(action=..., attempted_move=..., response=...)
PlayerDecision(action, attempted_move, response) == [action |-> action, attempted_move |-> attempted_move, response |-> response]

\* PlayerDecision(action="resign")
ResignDecision == PlayerDecision("resign", None, None)

\* no decision object (Python None)
NoDecision == PlayerDecision("None", None, None)

ParseOk(d) == [ok |-> TRUE, decision |-> d]

ParseMoveError == [ok |-> FALSE, decision |-> NoDecision]

\* BaseLLMMoveHandler.parse_decision_from_response
\* the test of the extracted text and the construction of the decision
DecisionFromText(decision_text, response) ==
    IF ~decision_text.some \/ Len(decision_text.text) = 0 THEN ParseMoveError
    ELSE ParseOk(PlayerDecision("move", decision_text, Some(response)))

parse_decision_from_response(response) == DecisionFromText(extract_decision_text(response), response)

\* the raw completions a connector may return
FinalAnswer == <<"F", "i", "n", "a", "l", " ", "A", "n", "s", "w", "e", "r", ":", " ">>

Completions == {FinalAnswer \o <<"e", "4">>, FinalAnswer \o <<"e", "2", "e", "4">>, FinalAnswer \o <<"e", "5">>, FinalAnswer \o <<"N", "d", "2">>, FinalAnswer \o <<"-", "-">>, <<"i", "n", "v", "a", "l", "i", "d">>, <<"n", "o", " ", "m", "o", "v", "e">>, <<"u", "m">>}

\* parse_decision_from_response on each completion, evaluated once
DecisionOf == [r \in Completions |-> parse_decision_from_response(r)]

\* the text of the decision made up when no completion parses
SentinelMove == <<"?", "?", "?">>

\* the move texts a selected decision can carry
AttemptedTexts == {DecisionOf[r].decision.attempted_move.text : r \in {c \in Completions : DecisionOf[c].ok}} \cup {SentinelMove}

\* parse_attempted_move_to_uci(text, context.board_in_fen) on each of them, evaluated once
NormalizedOf == [t \in AttemptedTexts |-> parse_attempted_move_to_uci(t)]

\* variant: a completion that does not parse still votes, for the made-up move
EveryCompletionVotes(responses) == [i \in 1..Len(responses) |-> IF DecisionOf[responses[i]].ok THEN DecisionOf[responses[i]].decision ELSE PlayerDecision("move", Some(SentinelMove), Some(responses[i]))]

\* the decisions list: the completions that parse, in completion order
RECURSIVE ParsedDecisions(_)
ParsedDecisions(responses) == IF responses = <<>> THEN <<>> ELSE (IF DecisionOf[Head(responses)].ok THEN <<DecisionOf[Head(responses)].decision>> ELSE <<>>) \o ParsedDecisions(Tail(responses))

\* variant: the move text is converted to coordinate notation before it is counted
decision_tuple_in_uci(d) == <<d.action, IF NormalizedOf[d.attempted_move.text].ok THEN Some(NormalizedOf[d.attempted_move.text].uci) ELSE d.attempted_move>>

decision_tuple(d) == <<d.action, d.attempted_move>>

\* Counter(decision_tuples)[t]
vote_count(decisions, t) == Cardinality({i \in 1..Len(decisions) : decision_tuple(decisions[i]) = t})

\* the count of the tuple of the i-th decision
votes_of(decisions, i) == vote_count(decisions, decision_tuple(decisions[i]))

\* variant: among the keys with the highest count the last inserted one wins
most_voted_tuple_last_tie(decisions) == decision_tuple(decisions[CHOOSE i \in 1..Len(decisions) : (\A j \in 1..Len(decisions) : votes_of(decisions, j) <= votes_of(decisions, i)) /\ (\A k \in (i + 1)..Len(decisions) : votes_of(decisions, k) < votes_of(decisions, i) \/ decision_tuple(decisions[k]) = decision_tuple(decisions[i]))])

\* Counter.most_common(1)[0][0]: the first inserted key among those with the highest count
most_voted_tuple(decisions) == decision_tuple(decisions[CHOOSE i \in 1..Len(decisions) : (\A j \in 1..Len(decisions) : votes_of(decisions, j) <= votes_of(decisions, i)) /\ (\A k \in 1..(i - 1) : votes_of(decisions, k) < votes_of(decisions, i))])

\* variant: a candidate whose move is legal is preferred to the vote winner
most_voted_decision_preferring_legal(decisions) ==
    IF \E i \in 1..Len(decisions) : decisions[i].action = "move" /\ NormalizedOf[decisions[i].attempted_move.text].ok
    THEN decisions[CHOOSE i \in 1..Len(decisions) : /\ decisions[i].action = "move" /\ NormalizedOf[decisions[i].attempted_move.text].ok
                                                     /\ \A j \in 1..(i - 1) : ~(decisions[j].action = "move" /\ NormalizedOf[decisions[j].attempted_move.text].ok)]
    ELSE decisions[1]

\* winning_decisions[0]
most_voted_decision(decisions) == decisions[CHOOSE i \in 1..Len(decisions) : decision_tuple(decisions[i]) = most_voted_tuple(decisions) /\ \A j \in 1..(i - 1) : decision_tuple(decisions[j]) # most_voted_tuple(decisions)]

Voted(d) == [raised |-> "None", decision |-> d]

VoteRaises(e) == [raised |-> e, decision |-> NoDecision]

\* the branch on the decisions list: the made-up decision, or the vote
vote_on_decisions(decisions, responses) ==
    IF decisions = <<>>
    THEN IF responses = <<>> THEN VoteRaises("IndexError")
         ELSE Voted(PlayerDecision("move", Some(SentinelMove), Some(responses[1])))
    ELSE Voted(most_voted_decision(decisions))

\* the part of _get_most_voted_player_decision_from_llm after connector.query returned
vote_on_responses(responses) == vote_on_decisions(ParsedDecisions(responses), responses)

Validated(d) == [error |-> "None", decision |-> d]

ValidationError(e, d) == [error |-> e, decision |-> d]

\* the decision with its move replaced by the normalized one, or the normalizer's error
WithValidMove(decision, valid_attempted_move) ==
    IF valid_attempted_move.ok THEN Validated([decision EXCEPT !.attempted_move = Some(valid_attempted_move.uci)])
    ELSE ValidationError(valid_attempted_move.error, decision)

\* variant: an unsupported action is reported like a missing move
validate_player_decision_from_llm_retries_unsupported(decision) ==
    IF decision.action = "resign" THEN Validated(decision)
    ELSE IF decision.action # "move" \/ ~decision.attempted_move.some THEN ValidationError("InvalidMoveError", decision)
    ELSE WithValidMove(decision, NormalizedOf[decision.attempted_move.text])

\* LLMPlayer._validate_player_decision_from_llm
validate_player_decision_from_llm(decision) ==
    IF decision.action = "resign" THEN Validated(decision)
    ELSE IF decision.action # "move" THEN ValidationError("NotImplementedError", decision)
    ELSE IF ~decision.attempted_move.some THEN ValidationError("InvalidMoveError", decision)
    ELSE WithValidMove(decision, NormalizedOf[decision.attempted_move.text])

\* the errors the retry branch of _make_decision catches
RetryableErrors == {"InvalidMoveError", "IllegalMoveError", "AmbiguousMoveError"}

\* variant: the return statement after a successful validation is missing
accepts_without_return(result) == FALSE

\* the try block around validation returns the decision when no error was raised
accepts(result) == result.error = "None"

\* variant: one attempt too many
max_attempts_one_more(retries) == retries + 2

\* max_attempts = self.max_move_retries + 1
max_attempts(retries) == retries + 1

\* variant: a network error is swallowed and turned into a resignation
on_network_error_resigns(e) == [kind |-> "returned", decision |-> ResignDecision, error |-> "None"]

\* the except (TimeoutError, ConnectionError) branch: re-raise
on_network_error(e) == [kind |-> "raised", decision |-> NoDecision, error |-> e]

Returned(d) == [kind |-> "returned", decision |-> d, error |-> "None"]

Escaped(e) == [kind |-> "raised", decision |-> NoDecision, error |-> e]

NoOutcome == [kind |-> "none", decision |-> NoDecision, error |-> "None"]

(***************************************************************************)
(* One turn of LLMPlayer._make_decision                                    *)
(***************************************************************************)

\* bounds of the model
MaxRetries == 2

MaxVotes == 3

\* the lists of completions a query for n completions may return
Batches(n) == UNION {[1..k -> Completions] : k \in 0..n}

NetworkErrors == {"TimeoutError", "ConnectionError"}

VARIABLES max_move_retries, num_votes, pc, attempt, prompt, responses, decision, outcome, query_history, attempt_log, last_move_attempts, last_move_decision, turn_count, context, retry_prompts

\* the state of a Game and of its client: the board objects, Game._outcome, the
\* locals of play(), the player call in progress, and what the client observed
VARIABLES boards, _outcome, game_pc, num_moves, max_num_moves, player_result, close_calls, propagated, requests, metrics_tracker

\* the state of a StockfishPlayer and of the engine subprocesses it started
VARIABLES engine, running, spawned, engine_log

\* a pure function under test: the text given, how far the calls went, what they returned
VARIABLES fn_input, fn_pc, fn_output

turn_vars == <<max_move_retries, num_votes, pc, attempt, prompt, responses, decision, outcome, query_history, attempt_log, last_move_attempts, last_move_decision, turn_count, context, retry_prompts>>

game_vars == <<boards, _outcome, game_pc, num_moves, max_num_moves, player_result, close_calls, propagated, requests, metrics_tracker>>

engine_vars == <<engine, running, spawned, engine_log>>

fn_vars == <<fn_input, fn_pc, fn_output>>

vars == <<turn_vars, game_vars, engine_vars, fn_vars>>

\* Game.metrics_tracker: None (enable_metrics is off), or a MetricsTracker
\* whose _evaluator is an evaluator ("open") or None (Stockfish unavailable);
\* the calls made on the evaluator, the metrics recorded and what the last
\* record_move did are kept with it
Tracker(evaluator) == [attached |-> TRUE, evaluator |-> evaluator, evaluate_calls |-> 0, close_calls |-> 0, recorded |-> 0, disabled_logged |-> FALSE, last_record |-> "none"]

NoTracker == [Tracker("None") EXCEPT !.attached = FALSE]

\* Game.__init__: a fresh board, no outcome, nothing asked of the players yet
GameConstructedWith(tracker) ==
                   /\ metrics_tracker = tracker
                   /\ boards = [game |-> <<>>, handed |-> <<>>]
                   /\ _outcome = [termination |-> "None", winner |-> "None"]
                   /\ game_pc = "CLIENT"
                   /\ num_moves = 0
                   /\ max_num_moves = [some |-> FALSE, value |-> 0]
                   /\ player_result = [kind |-> "none", ran |-> FALSE, legal |-> {}, action |-> "None", attempted_move |-> [some |-> FALSE, text |-> ""], error |-> "None"]
                   /\ close_calls = [white |-> 0, black |-> 0]
                   /\ propagated = "None"
                   /\ requests = <<>>

GameConstructed == GameConstructedWith(NoTracker)

\* StockfishPlayer.__init__: no engine object and no subprocess
EngineConstructed == /\ engine = [some |-> FALSE, pid |-> 0]
                     /\ running = {}
                     /\ spawned = 0
                     /\ engine_log = <<>>

\* no function is under test
NothingApplied == /\ fn_input = <<>>
                  /\ fn_pc = "NONE"
                  /\ fn_output = <<>>

Init == /\ max_move_retries \in 0..MaxRetries
        /\ num_votes \in 1..MaxVotes
        /\ pc = "BUILD_PROMPT"
        /\ attempt = 0
        /\ prompt = <<>>
        /\ responses = <<>>
        /\ decision = NoDecision
        /\ outcome = NoOutcome
        /\ query_history = <<>>
        /\ attempt_log = <<>>
        /\ last_move_attempts = 0
        /\ last_move_decision = NoDecision
        /\ turn_count = 0
        /\ context = model_dump
        /\ retry_prompts = 0
        /\ GameConstructed
        /\ EngineConstructed
        /\ NothingApplied

\* what a prompt builder leaves of the context: it is called with the
\* keyword arguments context.model_dump(), a dictionary of its own, so the
\* keys it adds to them stay out of the context
context_sharing_kwargs(ctx, kwargs) == kwargs

context_after_call(ctx, kwargs) == ctx

\* the diagnostics as _make_decision sets them before its first attempt
diagnostics_kept == [attempts |-> last_move_attempts, decision |-> last_move_decision]

reset_diagnostics == [attempts |-> 0, decision |-> NoDecision]

\* a retry prompt is built for a failed attempt that is not the last one
will_retry_after_last(failed, retries) == failed < max_attempts(retries)

will_retry(failed, retries) == failed < max_attempts(retries) - 1

\* _make_decision up to the loop: the initial prompt, then the diagnostics reset
BuildPrompt == /\ pc = "BUILD_PROMPT"
               /\ IF get_prompt.ok
                  THEN /\ prompt' = get_prompt.text
                       /\ pc' = "QUERY"
                       /\ outcome' = outcome
                       /\ last_move_attempts' = reset_diagnostics.attempts
                       /\ last_move_decision' = reset_diagnostics.decision
                  ELSE /\ prompt' = prompt
                       /\ pc' = "RAISED"
                       /\ outcome' = Escaped(get_prompt.error)
                       /\ UNCHANGED <<last_move_attempts, last_move_decision>>
               /\ attempt' = 0
               /\ turn_count' = turn_count + 1
               /\ context' = context_after_call(context, With(model_dump, "flattened_move_history_in_uci", flatten_move_history_in_uci(move_history_in_uci)))
               /\ UNCHANGED <<max_move_retries, num_votes, responses, decision, query_history, attempt_log, retry_prompts>>
               /\ UNCHANGED <<game_vars, engine_vars, fn_vars>>

\* connector.query(prompt, n=self.num_votes) returns a list of completions
QueryReturns == /\ pc = "QUERY"
                /\ \E batch \in Batches(num_votes) : responses' = batch
                /\ query_history' = Append(query_history, [prompt |-> prompt, n |-> num_votes, result |-> "returned"])
                /\ pc' = "PARSE_AND_VOTE"
                /\ UNCHANGED <<max_move_retries, num_votes, attempt, prompt, decision, outcome, attempt_log, last_move_attempts, last_move_decision, turn_count, context, retry_prompts>>
                /\ UNCHANGED <<game_vars, engine_vars, fn_vars>>

\* connector.query raises TimeoutError or ConnectionError
QueryRaises == /\ pc = "QUERY"
               /\ \E e \in NetworkErrors : /\ outcome' = on_network_error(e)
                                            /\ query_history' = Append(query_history, [prompt |-> prompt, n |-> num_votes, result |-> e])
               /\ pc' = IF outcome'.kind = "raised" THEN "RAISED" ELSE "RETURNED"
               /\ UNCHANGED <<max_move_retries, num_votes, attempt, prompt, responses, decision, attempt_log, last_move_attempts, last_move_decision, turn_count, context, retry_prompts>>
               /\ UNCHANGED <<game_vars, engine_vars, fn_vars>>

\* the completions are parsed and voted on; the diagnostics are updated
ParseAndVote == /\ pc = "PARSE_AND_VOTE"
                /\ \E voted \in {vote_on_responses(responses)} :
                      IF voted.raised = "None"
                      THEN /\ decision' = voted.decision
                           /\ last_move_attempts' = attempt + 1
                           /\ last_move_decision' = voted.decision
                           /\ pc' = "VALIDATE"
                           /\ outcome' = outcome
                      ELSE /\ outcome' = Escaped(voted.raised)
                           /\ pc' = "RAISED"
                           /\ UNCHANGED <<decision, last_move_attempts, last_move_decision>>
                /\ UNCHANGED <<max_move_retries, num_votes, attempt, prompt, responses, query_history, attempt_log, turn_count, context, retry_prompts>>
                /\ UNCHANGED <<game_vars, engine_vars, fn_vars>>

\* the selected decision is validated: accept, retry with a new prompt, or resign
Validate == /\ pc = "VALIDATE"
            /\ \E result \in {validate_player_decision_from_llm(decision)} :
               \E retry \in {IF result.error \in RetryableErrors /\ will_retry(attempt, max_move_retries)
                              THEN get_retry_prompt(result.error, prompt, IF decision.response.some THEN decision.response.text ELSE <<"None">>, IF decision.attempted_move.some THEN decision.attempted_move.text ELSE <<"None">>)
                              ELSE Rendered(prompt)} :
                  /\ attempt_log' = Append(attempt_log, [decision |-> decision, error |-> result.error])
                  /\ IF result.error \in RetryableErrors /\ will_retry(attempt, max_move_retries)
                     THEN /\ retry_prompts' = retry_prompts + 1
                          /\ context' = context_after_call(context, With(With(With(model_dump, "last_prompt", prompt), "last_response", <<"last_response">>), "last_attempted_move", <<"last_attempted_move">>))
                     ELSE UNCHANGED <<retry_prompts, context>>
                  /\ IF accepts(result)
                     THEN /\ outcome' = Returned(result.decision)
                          /\ pc' = "RETURNED"
                          /\ last_move_decision' = result.decision
                          /\ UNCHANGED <<attempt, prompt, last_move_attempts>>
                     ELSE IF result.error = "NotImplementedError"
                     THEN /\ outcome' = Returned(ResignDecision)
                          /\ pc' = "RETURNED"
                          /\ last_move_decision' = ResignDecision
                          /\ UNCHANGED <<attempt, prompt, last_move_attempts>>
                     ELSE IF ~retry.ok
                     THEN /\ outcome' = Escaped(retry.error)
                          /\ pc' = "RAISED"
                          /\ UNCHANGED <<attempt, prompt, last_move_attempts, last_move_decision>>
                     ELSE IF attempt + 1 < max_attempts(max_move_retries)
                     THEN /\ prompt' = retry.text
                          /\ attempt' = attempt + 1
                          /\ pc' = "QUERY"
                          /\ UNCHANGED <<outcome, last_move_attempts, last_move_decision>>
                     ELSE /\ outcome' = Returned(ResignDecision)
                          /\ pc' = "RETURNED"
                          /\ last_move_attempts' = max_attempts(max_move_retries)
                          /\ last_move_decision' = ResignDecision
                          /\ UNCHANGED <<attempt, prompt>>
            /\ responses' = <<>>
            /\ decision' = NoDecision
            /\ UNCHANGED <<max_move_retries, num_votes, query_history, turn_count>>
            /\ UNCHANGED <<game_vars, engine_vars, fn_vars>>

Next == BuildPrompt \/ QueryReturns \/ QueryRaises \/ ParseAndVote \/ Validate

Spec == Init /\ [][Next]_vars


(***************************************************************************)
(* Properties of a turn                                                    *)
(***************************************************************************)

\* the attempts validated so far all failed with a move error
AllAttemptsFailed == \A i \in 1..Len(attempt_log) : attempt_log[i].error \in RetryableErrors

\* C1: when the selected decision of each of the R+1 attempts fails validation
\* (invalid, illegal or ambiguous), exactly R+1 queries have been issued and the
\* turn has returned a resignation without a move, and nothing was raised.
C1_ResignAfterExhaustedRetries == (Len(attempt_log) = max_move_retries + 1 /\ AllAttemptsFailed) => (pc = "RETURNED" /\ outcome.kind = "returned" /\ outcome.decision.action = "resign" /\ ~outcome.decision.attempted_move.some /\ Len(query_history) = max_move_retries + 1 /\ \A i \in 1..Len(query_history) : query_history[i].result = "returned")

\* C1 witness: R = 2, three failed attempts of three different kinds, resignation returned
C1_Witness == /\ max_move_retries = 2
              /\ Len(attempt_log) = 3
              /\ {attempt_log[i].error : i \in 1..Len(attempt_log)} = RetryableErrors
              /\ pc = "RETURNED"
              /\ outcome.decision = ResignDecision
              /\ Len(query_history) = 3

LastQueryReturned == query_history # <<>> /\ query_history[Len(query_history)].result = "returned"

\* the positions of the current batch whose completion parses
ParsedAt == {i \in 1..Len(responses) : DecisionOf[responses[i]].ok}

\* the (action, attempted-move-text) pair of the i-th completion of the batch
PairAt(i) == <<DecisionOf[responses[i]].decision.action, DecisionOf[responses[i]].decision.attempted_move.text>>

\* the number of parsed completions of the batch whose pair is exactly p
PairCount(p) == Cardinality({i \in ParsedAt : PairAt(i) = p})

\* the move text extracted from the i-th completion of the batch
TextAt(i) == DecisionOf[responses[i]].decision.attempted_move.text

\* the number of parsed completions of the batch whose extracted text is exactly t
TextCount(t) == Cardinality({i \in ParsedAt : TextAt(i) = t})

\* the prompt of the query that follows the k-th attempt
NextPrompt(k) == IF k < Len(query_history) THEN query_history[k + 1].prompt ELSE prompt

\* the k-th attempt failed with a move error while attempts remained
RetriedAfter(k) == attempt_log[k].error \in RetryableErrors /\ k <= max_move_retries

\* C3: a turn ends in exactly one of three ways: a move decision, a resignation,
\* or the timeout/connection failure of a query; whatever list of completions
\* the connector returns, no other exception escapes the turn.
C3_OnlyTransportErrorsEscape == /\ pc = "RAISED" => (outcome.kind = "raised" /\ outcome.error \in NetworkErrors)
                                /\ pc = "RETURNED" => (outcome.kind = "returned" /\ outcome.decision.action \in {"move", "resign"})

\* C3, on the batches that hold at least one completion: the only way a turn
\* raises after a query returned is the empty batch.
C3_HoldsForNonEmptyBatches == (pc = "RAISED" /\ LastQueryReturned) => (responses = <<>> /\ outcome.error = "IndexError")

\* C4: whenever a turn returns a decision with action move, its attempted move
\* is the coordinate text of a move that is legal in the position of the
\* decision context.
C4_ReturnedMoveIsLegal == (pc = "RETURNED" /\ outcome.decision.action = "move") => (outcome.decision.attempted_move.some /\ outcome.decision.attempted_move.text \in legal_moves_in_uci)

\* C4, apart from the null move: every returned move other than "0000" is legal.
C4_HoldsApartFromNullMove == (pc = "RETURNED" /\ outcome.decision.action = "move") => (outcome.decision.attempted_move.some /\ outcome.decision.attempted_move.text \in legal_moves_in_uci \cup {<<"0", "0", "0", "0">>})

\* C5: when at least one completion of the batch parses, the decision selected
\* for validation carries the (action, move text) pair with the highest number
\* of exact-match occurrences among the parsed decisions; among pairs sharing
\* the highest count the one occurring first in completion order wins, and the
\* decision selected is the first parsed decision carrying that pair.
C5_MajorityWithFirstOccurrenceTieBreak ==
    (pc = "VALIDATE" /\ ParsedAt # {}) =>
        \E w \in ParsedAt :
            /\ decision = DecisionOf[responses[w]].decision
            /\ \A j \in ParsedAt : PairCount(PairAt(j)) <= PairCount(PairAt(w))
            /\ \A j \in ParsedAt : j < w => PairCount(PairAt(j)) < PairCount(PairAt(w))

\* C5 witness: three parsed completions with three different moves, a three-way
\* tie, and the first completion's decision selected
C5_Witness == /\ pc = "VALIDATE"
              /\ Len(responses) = 3
              /\ ParsedAt = {1, 2, 3}
              /\ Cardinality({PairAt(i) : i \in ParsedAt}) = 3
              /\ decision = DecisionOf[responses[1]].decision

\* C6: the attempt loop stops at the first attempt whose selected decision
\* validates: the k-th attempt validating means that the turn has returned that
\* attempt's move, converted, after exactly k queries, that all earlier attempts
\* failed, and that no attempt or query follows.
C6_StopsAtFirstValidatedAttempt ==
    \A k \in 1..Len(attempt_log) :
        attempt_log[k].error = "None" =>
            /\ k = Len(attempt_log)
            /\ Len(query_history) = k
            /\ k <= max_move_retries + 1
            /\ \A i \in 1..(k - 1) : attempt_log[i].error \in RetryableErrors
            /\ pc = "RETURNED"
            /\ outcome.kind = "returned"
            /\ outcome.decision.action = "move"
            /\ outcome.decision.response = attempt_log[k].decision.response
            /\ outcome.decision.attempted_move = Some(NormalizedOf[attempt_log[k].decision.attempted_move.text].uci)

\* C6 witness: an illegal move, then a legal one: e2e4 is returned after exactly 2 queries
C6_Witness == /\ Len(attempt_log) = 2
              /\ attempt_log[1].error = "IllegalMoveError"
              /\ attempt_log[2].error = "None"
              /\ Len(query_history) = 2
              /\ pc = "RETURNED"
              /\ outcome.decision.attempted_move = Some(<<"e", "2", "e", "4">>)

\* the made-up decision of a batch none of whose completions parses
SentinelDecision == PlayerDecision("move", Some(SentinelMove), Some(responses[1]))

\* C7: when every completion of a batch fails extraction/sanitization, the
\* attempt does not crash or end the turn: the sentinel decision with the first
\* raw completion goes to validation, fails there as invalid notation, counts
\* as one attempt, and when attempts remain the next prompt is the previous
\* prompt followed by the not-parsable notice and that first raw completion.
C7_SentinelWhenNothingParses ==
    /\ (pc \in {"VALIDATE", "RAISED"} /\ LastQueryReturned /\ ParsedAt = {}) => (pc = "VALIDATE" /\ decision = SentinelDecision)
    /\ \A k \in 1..Len(attempt_log) :
          attempt_log[k].decision.attempted_move = Some(SentinelMove) =>
              /\ attempt_log[k].error = "InvalidMoveError"
              /\ k <= max_move_retries => NextPrompt(k) = query_history[k].prompt \o <<GAME_ARENA_INVALID_MOVE_TEMPLATE[2].text>> \o attempt_log[k].decision.response.text

\* C7, on the batches that hold at least one completion: the sentinel decision
\* is selected whenever none of them parses.
C7_HoldsForNonEmptyBatches ==
    /\ (pc \in {"VALIDATE", "RAISED"} /\ LastQueryReturned /\ ParsedAt = {} /\ responses # <<>>) => (pc = "VALIDATE" /\ decision = SentinelDecision)
    /\ \A k \in 1..Len(attempt_log) :
          attempt_log[k].decision.attempted_move = Some(SentinelMove) =>
              /\ attempt_log[k].error = "InvalidMoveError"
              /\ k <= max_move_retries => NextPrompt(k) = query_history[k].prompt \o <<GAME_ARENA_INVALID_MOVE_TEMPLATE[2].text>> \o attempt_log[k].decision.response.text

\* C8: a completion that fails extraction or sanitization casts no vote and
\* does not abort the attempt: a batch with at least one parsed completion goes
\* to validation with one of the parsed decisions, never with the sentinel,
\* however many of its completions failed to parse.
C8_UnparsableCompletionsCastNoVote ==
    (pc \in {"VALIDATE", "RAISED"} /\ LastQueryReturned /\ ParsedAt # {}) =>
        /\ pc = "VALIDATE"
        /\ \E i \in ParsedAt : decision = DecisionOf[responses[i]].decision
        /\ decision.attempted_move # Some(SentinelMove)

\* C8 witness: two completions that do not parse and one that does; the parsed one is selected
C8_Witness == /\ pc = "VALIDATE"
              /\ Len(responses) = 3
              /\ Cardinality(ParsedAt) = 1
              /\ \E i \in ParsedAt : decision = DecisionOf[responses[i]].decision

\* the coordinate text a parsed move text converts to (the text itself when it converts to none)
CanonicalText(t) == IF NormalizedOf[t].ok THEN NormalizedOf[t].uci ELSE t

\* the number of parsed completions of the batch whose move converts to the coordinate text u
PooledCount(u) == Cardinality({i \in ParsedAt : CanonicalText(TextAt(i)) = u})

\* two parsed completions of the batch spell one move in two notations
TwoNotationsOfOneMove == \E i, j \in ParsedAt : TextAt(i) # TextAt(j) /\ CanonicalText(TextAt(i)) = CanonicalText(TextAt(j))

C10_RetryPromptOfTheFailureKind ==
    \A k \in 1..Len(attempt_log) :
        RetriedAfter(k) =>
            /\ k < Len(query_history) \/ pc = "QUERY"
            /\ NextPrompt(k) = Format(retry_prompt_templates[attempt_log[k].error], [last_prompt |-> query_history[k].prompt, last_response |-> attempt_log[k].decision.response.text, last_attempted_move |-> attempt_log[k].decision.attempted_move.text])

\* C10 witness: an ambiguous move, then an illegal one, and the third query is about to be sent
C10_Witness == /\ Len(attempt_log) = 2
               /\ attempt_log[1].error = "AmbiguousMoveError"
               /\ attempt_log[2].error = "IllegalMoveError"
               /\ pc = "QUERY"
               /\ Len(query_history) = 2

\* prompt a starts with prompt b and goes on after it
ExtendsPrompt(a, b) == Len(a) > Len(b) /\ SubSeq(a, 1, Len(b)) = b

\* the prompts of the turn in the order they were made: those sent, then the one waiting to be sent
PromptsOfTurn == [i \in 1..Len(query_history) |-> query_history[i].prompt] \o (IF pc = "QUERY" THEN <<prompt>> ELSE <<>>)

\* the rendering of the initial template from the decision context
InitialPrompt == Format(GAME_ARENA_PROMPT_TEMPLATE, With(model_dump, "flattened_move_history_in_uci", flatten_move_history_in_uci(move_history_in_uci)))

\* prompt p is a retry template applied to the prompt q before it and to the
\* failed attempt, starts with q and with the first prompt, and holds the
\* opening text of the initial template once
IsRetryOf(p, q, first, failed) ==
    /\ ExtendsPrompt(p, q)
    /\ \E e \in DOMAIN retry_prompt_templates : p = Format(retry_prompt_templates[e], [last_prompt |-> q, last_response |-> failed.decision.response.text, last_attempted_move |-> failed.decision.attempted_move.text])
    /\ SubSeq(p, 1, Len(first)) = first
    /\ Cardinality({k \in 1..Len(p) : p[k] = GAME_ARENA_PROMPT_TEMPLATE[1].text}) = 1

\* C11: within one turn the first prompt is the rendering of the initial
\* template from the decision context; every later prompt is a retry template
\* applied to the prompt immediately before it, which it starts with verbatim;
\* so every prompt of the turn starts with the initial prompt, which is never
\* rendered again.
C11_PromptsGrowFromTheInitialPrompt ==
    LET prompts == PromptsOfTurn
    IN  /\ prompts # <<>> => prompts[1] = InitialPrompt
        /\ \A i \in 2..Len(prompts) : IsRetryOf(prompts[i], prompts[i - 1], prompts[1], attempt_log[i - 1])

\* C11 witness: three prompts were sent in one turn, each longer than the one before
C11_Witness == /\ Len(query_history) = 3
               /\ query_history[1].prompt = get_prompt.text
               /\ Len(query_history[1].prompt) < Len(query_history[2].prompt)
               /\ Len(query_history[2].prompt) < Len(query_history[3].prompt)

(***************************************************************************)
(* The game loop: Game.make_move and Game.play                             *)
(***************************************************************************)

\* bounds of the model: the decision requests of one game, the largest ply cap
GameMaxPlies == 6

MaxMoveCap == 4

\* The rules engine is modelled on the line of the fool's mate (1. f3 e5 2. g4
\* Qh4#): a position is the move stack of the board, the moves an agent of the
\* model can name are these four and the null move, and a stack of at most
\* GameMaxPlies + 1 plies has no fivefold repetition and no 75-move draw.
GameMoves == {"f2f3", "e7e5", "g2g4", "d8h4"}

NULL_MOVE == "0000"

Played(stack, m) == \E i \in 1..Len(stack) : stack[i] = m

\* chess.Board.turn: every push, of a null move too, passes the turn
turn(stack) == IF Len(stack) % 2 = 0 THEN "white" ELSE "black"

Opponent(color) == IF color = "white" THEN "black" ELSE "white"

\* chess.Board.is_check for white: the queen on h4 sees e1 once f2 is empty
is_check(stack) == Played(stack, "d8h4") /\ Played(stack, "f2f3")

\* the moves of GameMoves that are legal: a pawn moves once and by its own
\* side, the pawn on f2 is pinned by a queen on h4, g2g4 does not parry a
\* check, the queen reaches h4 only over e7
NamedLegalMoves(stack) ==
    {m \in GameMoves :
        /\ ~Played(stack, m)
        /\ m = "f2f3" => turn(stack) = "white" /\ ~Played(stack, "d8h4")
        /\ m = "g2g4" => turn(stack) = "white" /\ ~is_check(stack)
        /\ m = "e7e5" => turn(stack) = "black"
        /\ m = "d8h4" => turn(stack) = "black" /\ Played(stack, "e7e5")}

\* one legal move outside GameMoves wherever the position has one: white
\* parries the check by g2g3 while the pawn is on g2 and is mated when it is
\* on g4, a knight move is legal everywhere else
OtherLegalMoves(stack) ==
    IF turn(stack) = "black" THEN {"b8c6"}
    ELSE IF ~is_check(stack) THEN {"b1c3"}
    ELSE IF ~Played(stack, "g2g4") THEN {"g2g3"}
    ELSE {}

\* [move.uci() for move in board.legal_moves], as far as the model names it
get_legal_moves_in_uci(stack) == NamedLegalMoves(stack) \cup OtherLegalMoves(stack)

is_checkmate(stack) == turn(stack) = "white" /\ is_check(stack) /\ get_legal_moves_in_uci(stack) = {}

\* chess.Board.is_game_over: of its reasons only checkmate occurs on this line
is_game_over(stack) == is_checkmate(stack)

GameOutcome(termination, winner) == [termination |-> termination, winner |-> winner]

NoGameOutcome == GameOutcome("None", "None")

\* chess.Board.outcome of a position that is over
board_outcome(stack) == GameOutcome("CHECKMATE", Opponent(turn(stack)))

\* Game.outcome: a natural outcome is recorded the first time it is seen
game_outcome(recorded, stack) == IF recorded = NoGameOutcome /\ is_game_over(stack) THEN board_outcome(stack) ELSE recorded

\* Game.finished: the game has an outcome, recorded or natural
finished_by_the_board_only(recorded, stack) == is_game_over(stack)

finished(recorded, stack) == game_outcome(recorded, stack) # NoGameOutcome

current_player(stack) == turn(stack)

\* the attempted-move texts of the model's agents: the named moves in
\* coordinate notation, a null-move spelling and a text that is no move
GameTexts == GameMoves \cup {"--", "xyz"}

\* parse_attempted_move_to_uci on these texts: a named move is returned when
\* it is legal and is an illegal move otherwise (it has the form of a pawn
\* move for parse_san as well); "--" fails from_uci and is the null move of
\* parse_san; "xyz" fails both
parse_attempted_move_at(stack, text) ==
    IF text \in GameMoves
    THEN IF text \in get_legal_moves_in_uci(stack) THEN Ok(text) ELSE Raise("IllegalMoveError")
    ELSE IF text = "--" THEN Ok(NULL_MOVE)
    ELSE Raise("InvalidMoveError")

\* chess.Board.push
push(stack, move) == Append(stack, move)

\* an optional text of the game model: attempted_move is a str or None
NoText == [some |-> FALSE, text |-> ""]

Text(t) == [some |-> TRUE, text |-> t]

PlayerActions == {"move", "resign"}

\* PlayerDecision.validate_decision_consistency, after the Literal of `action`
validate_decision_consistency_accepts_all(action, attempted_move) == "None"

validate_decision_consistency(action, attempted_move) ==
    IF action \notin PlayerActions THEN "ValueError"
    ELSE IF action = "move" /\ (~attempted_move.some \/ attempted_move.text = "") THEN "ValueError"
    ELSE IF action # "move" /\ attempted_move.some THEN "ValueError"
    ELSE "None"

\* PlayerDecisionContext.validate_legal_moves_exist
validate_legal_moves_exist_accepts_empty(v) == "None"

validate_legal_moves_exist(v) == IF v = {} THEN "ValueError" ELSE "None"

\* what a call of a player gives back to make_move: a decision or an exception
\* (`ran` tells whether _make_decision was entered, `legal` is the
\* legal_moves_in_uci of the context that was built)
PlayerReturned(legal, action, attempted_move) == [kind |-> "decision", ran |-> TRUE, legal |-> legal, action |-> action, attempted_move |-> attempted_move, error |-> "None"]

PlayerRaised(ran, legal, error) == [kind |-> "raised", ran |-> ran, legal |-> legal, action |-> "None", attempted_move |-> NoText, error |-> error]

NoPlayerResult == [kind |-> "none", ran |-> FALSE, legal |-> {}, action |-> "None", attempted_move |-> NoText, error |-> "None"]

\* what the decision logic of an agent may try to construct, and what it may raise
AgentActions == PlayerActions \cup {"offer_draw"}

AgentTexts == {NoText, Text("")} \cup {Text(t) : t \in GameTexts}

PlayerErrors == {"TimeoutError", "ConnectionError", "RuntimeError"}

\* PlayerDecision(action=..., attempted_move=...) inside _make_decision
ConstructDecision(legal, action, attempted_move) ==
    IF validate_decision_consistency(action, attempted_move) = "None"
    THEN PlayerReturned(legal, action, attempted_move)
    ELSE PlayerRaised(TRUE, legal, validate_decision_consistency(action, attempted_move))

\* BasePlayer._make_decision of any agent, on a context with these legal moves
make_decision_results(legal) ==
    {ConstructDecision(legal, a, t) : a \in AgentActions, t \in AgentTexts} \cup {PlayerRaised(TRUE, legal, e) : e \in PlayerErrors}

\* BasePlayer.__call__: the context is built from the board, then the agent decides
player_call_results(legal) ==
    IF validate_legal_moves_exist(legal) # "None"
    THEN {PlayerRaised(FALSE, legal, validate_legal_moves_exist(legal))}
    ELSE make_decision_results(legal)

\* what an agent may do to the board object it was given
AgentEdits == {"keep", "push", "pop", "clear"}

Edited(stack, edit) ==
    IF edit = "push" THEN push(stack, NULL_MOVE)
    ELSE IF edit = "pop" /\ stack # <<>> THEN SubSeq(stack, 1, Len(stack) - 1)
    ELSE IF edit = "clear" THEN <<>>
    ELSE stack

\* self.board.copy(): a new board object with the contents of the game's board
board_shared(bs) == [ref |-> "game", boards |-> bs]

board_copy(bs) == [ref |-> "handed", boards |-> [bs EXCEPT !.handed = bs.game]]

\* Game.board
board == boards.game

\* the three move errors play() turns into a forfeit
ForfeitErrors == {"IllegalMoveError", "InvalidMoveError", "AmbiguousMoveError"}

\* the effect of make_move after the player call: the new move stack, the new
\* Game._outcome, and the exception that leaves make_move
Handled(stack, recorded, error) == [board |-> stack, outcome |-> recorded, error |-> error]

_handle_resignation(stack, recorded) == Handled(stack, GameOutcome("VARIANT_LOSS", Opponent(current_player(stack))), "None")

PushParsed(stack, recorded, parsed) ==
    IF parsed.ok THEN Handled(push(stack, parsed.uci), recorded, "None") ELSE Handled(stack, recorded, parsed.error)

_handle_move_pushes_first(stack, recorded, result) ==
    IF ~result.attempted_move.some THEN Handled(stack, recorded, "InvalidMoveError")
    ELSE Handled(push(stack, result.attempted_move.text), recorded, parse_attempted_move_at(stack, result.attempted_move.text).error)

_handle_move(stack, recorded, result) ==
    IF ~result.attempted_move.some THEN Handled(stack, recorded, "InvalidMoveError")
    ELSE PushParsed(stack, recorded, parse_attempted_move_at(stack, result.attempted_move.text))

make_move_resign_keeps_playing(stack, recorded, result) ==
    IF result.kind = "raised" THEN Handled(stack, recorded, result.error)
    ELSE IF result.action = "resign" THEN Handled(stack, recorded, "None")
    ELSE IF result.action = "move" THEN _handle_move(stack, recorded, result)
    ELSE Handled(stack, recorded, "InvalidMoveError")

make_move(stack, recorded, result) ==
    IF result.kind = "raised" THEN Handled(stack, recorded, result.error)
    ELSE IF result.action = "resign" THEN _handle_resignation(stack, recorded)
    ELSE IF result.action = "move" THEN _handle_move(stack, recorded, result)
    ELSE Handled(stack, recorded, "InvalidMoveError")

\* Game._cleanup_players: close() of white, then of black, an Exception of
\* either is logged and swallowed; the result is the calls made and the
\* exception that leaves the clean-up
Cleaned(calls, error) == [close_calls |-> calls, error |-> error]

CloseOutcomes == {"returns", "raises"}

_cleanup_players_stops_at_error(calls, white_close, black_close) ==
    IF white_close = "raises" THEN Cleaned([calls EXCEPT !.white = @ + 1], "None")
    ELSE Cleaned([white |-> calls.white + 1, black |-> calls.black + 1], "None")

\* variant: the exception of a close() leaves the clean-up
_cleanup_players_lets_errors_out(calls, white_close, black_close) ==
    IF white_close = "raises" THEN Cleaned([calls EXCEPT !.white = @ + 1], "CloseError")
    ELSE IF black_close = "raises" THEN Cleaned([white |-> calls.white + 1, black |-> calls.black + 1], "CloseError")
    ELSE Cleaned([white |-> calls.white + 1, black |-> calls.black + 1], "None")

_cleanup_players(calls, white_close, black_close) ==
    Cleaned([white |-> calls.white + 1, black |-> calls.black + 1], "None")

\* what the evaluator does when evaluate_move is called
EvaluatorOutcomes == {"metrics", "raises"}

\* MetricsTracker.record_move: nothing without an evaluator; a raising
\* evaluator is closed (a failure of that close is logged only) and dropped;
\* otherwise the metrics are appended to the mover's list
record_move_keeps_evaluator(tracker, how) ==
    IF tracker.evaluator = "None" THEN [tracker EXCEPT !.disabled_logged = TRUE, !.last_record = "skipped"]
    ELSE IF how = "raises" THEN [tracker EXCEPT !.evaluate_calls = @ + 1, !.close_calls = @ + 1, !.last_record = "evaluator_raised"]
    ELSE [tracker EXCEPT !.evaluate_calls = @ + 1, !.recorded = @ + 1, !.last_record = "recorded"]

record_move(tracker, how) ==
    IF tracker.evaluator = "None" THEN [tracker EXCEPT !.disabled_logged = TRUE, !.last_record = "skipped"]
    ELSE IF how = "raises"
         THEN [tracker EXCEPT !.evaluate_calls = @ + 1, !.close_calls = @ + 1, !.evaluator = "None", !.disabled_logged = TRUE, !.last_record = "evaluator_raised"]
    ELSE [tracker EXCEPT !.evaluate_calls = @ + 1, !.recorded = @ + 1, !.last_record = "recorded"]

\* the end of Game._handle_move: once the move is pushed, a game that has a
\* tracker asks it to record the move, and logs whatever record_move raises
_handle_move_metrics(tracker, pushed, how) ==
    IF tracker.attached /\ pushed THEN record_move(tracker, how) ELSE tracker

\* MetricsTracker.close: closes the evaluator it still holds; the reference is
\* cleared only when that close returns
tracker_close(tracker, how) ==
    IF tracker.evaluator = "None" THEN tracker
    ELSE [tracker EXCEPT !.close_calls = @ + 1, !.evaluator = IF how = "returns" THEN "None" ELSE @]

\* the last step of Game._cleanup_players: the tracker is closed, and an
\* exception of that close is logged
_cleanup_tracker(tracker, how) ==
    IF tracker.attached THEN tracker_close(tracker, how) ELSE tracker

\* max_num_moves of play(): an int or None
NoCap == [some |-> FALSE, value |-> 0]

Cap(m) == [some |-> TRUE, value |-> m]

Caps == {NoCap} \cup {Cap(m) : m \in 0..MaxMoveCap}

\* the head of the loop of play(): `while not self.finished`, then the ply cap
loop_head_cap_first(recorded, stack, n, cap) ==
    IF cap.some /\ n >= cap.value THEN "capped"
    ELSE IF finished(recorded, stack) THEN "finished"
    ELSE "make_move"

loop_head(recorded, stack, n, cap) ==
    IF finished(recorded, stack) THEN "finished"
    ELSE IF cap.some /\ n >= cap.value THEN "capped"
    ELSE "make_move"

\* the except clauses of play() around make_move
AfterMakeMove(recorded, raised, next) == [outcome |-> recorded, propagated |-> raised, next |-> next]

play_except_forfeits_always(handled) ==
    IF handled.error = "None" THEN AfterMakeMove(handled.outcome, "None", "LOOP")
    ELSE AfterMakeMove(GameOutcome("VARIANT_LOSS", Opponent(current_player(handled.board))), "None", "FINALLY")

play_except(handled) ==
    IF handled.error = "None" THEN AfterMakeMove(handled.outcome, "None", "LOOP")
    ELSE IF handled.error \in ForfeitErrors
    THEN AfterMakeMove(GameOutcome("VARIANT_LOSS", Opponent(current_player(handled.board))), "None", "FINALLY")
    ELSE AfterMakeMove(handled.outcome, handled.error, "FINALLY")

\* the LLM turn of the first part of the module is not running
TurnNotStarted == /\ max_move_retries = 0
                  /\ num_votes = 1
                  /\ pc = "BUILD_PROMPT"
                  /\ attempt = 0
                  /\ prompt = <<>>
                  /\ responses = <<>>
                  /\ decision = NoDecision
                  /\ outcome = NoOutcome
                  /\ query_history = <<>>
                  /\ attempt_log = <<>>
                  /\ last_move_attempts = 0
                  /\ last_move_decision = NoDecision
                  /\ turn_count = 0
                  /\ context = model_dump
                  /\ retry_prompts = 0

GameInit == TurnNotStarted /\ GameConstructed /\ EngineConstructed /\ NothingApplied

\* self.current_player(board=self.board.copy()): the context is built from the
\* board handed over, the agent decides and may edit that board
AskPlayer(handed, next_pc, in_play) ==
    \E result \in player_call_results(get_legal_moves_in_uci(handed.boards[handed.ref])) :
    \E edit \in IF result.ran THEN AgentEdits ELSE {"keep"} :
        /\ boards' = [handed.boards EXCEPT ![handed.ref] = Edited(@, edit)]
        /\ player_result' = result
        /\ requests' = Append(requests, [color |-> current_player(board), in_play |-> in_play])
        /\ game_pc' = next_pc

\* the client calls make_move(): up to the return of the player
CallMakeMove == /\ game_pc = "CLIENT"
                /\ Len(requests) < GameMaxPlies
                /\ AskPlayer(board_copy(boards), "MAKE_MOVE", FALSE)
                /\ propagated' = "None"
                /\ UNCHANGED <<_outcome, num_moves, max_num_moves, close_calls>>
                /\ UNCHANGED <<turn_vars, engine_vars, fn_vars, metrics_tracker>>

\* make_move() handles what the player gave back and returns or raises to the client
MakeMoveReturns == /\ game_pc = "MAKE_MOVE"
                   /\ \E handled \in {make_move(board, _outcome, player_result)} :
                         /\ boards' = [game |-> handled.board, handed |-> <<>>]
                         /\ _outcome' = handled.outcome
                         /\ propagated' = handled.error
                         /\ \E how \in EvaluatorOutcomes :
                               metrics_tracker' = _handle_move_metrics(metrics_tracker, handled.board # board, how)
                   /\ player_result' = NoPlayerResult
                   /\ game_pc' = "CLIENT"
                   /\ UNCHANGED <<num_moves, max_num_moves, close_calls, requests>>
                   /\ UNCHANGED <<turn_vars, engine_vars, fn_vars>>

\* the client calls play(max_num_moves)
CallPlay == /\ game_pc = "CLIENT"
            /\ \E cap \in Caps : /\ cap.some => Len(requests) + cap.value <= GameMaxPlies
                                 /\ max_num_moves' = cap
            /\ num_moves' = 0
            /\ propagated' = "None"
            /\ game_pc' = "LOOP"
            /\ UNCHANGED <<boards, _outcome, player_result, close_calls, requests>>
            /\ UNCHANGED <<turn_vars, engine_vars, fn_vars, metrics_tracker>>

\* an iteration of the loop of play() up to the return of the player
PlayAsks == /\ game_pc = "LOOP"
            /\ loop_head(_outcome, board, num_moves, max_num_moves) = "make_move"
            /\ Len(requests) < GameMaxPlies
            /\ AskPlayer(board_copy(boards), "PLAY_MAKE_MOVE", TRUE)
            /\ UNCHANGED <<_outcome, num_moves, max_num_moves, close_calls, propagated>>
            /\ UNCHANGED <<turn_vars, engine_vars, fn_vars, metrics_tracker>>

\* the rest of the iteration: make_move() handles the result, play() counts
\* the move or catches what make_move raised
PlayHandles == /\ game_pc = "PLAY_MAKE_MOVE"
               /\ \E handled \in {make_move(board, _outcome, player_result)} :
                  \E after \in {play_except(handled)} :
                         /\ boards' = [game |-> handled.board, handed |-> <<>>]
                         /\ _outcome' = after.outcome
                         /\ propagated' = after.propagated
                         /\ game_pc' = after.next
                         /\ num_moves' = IF handled.error = "None" THEN num_moves + 1 ELSE num_moves
                         /\ \E how \in EvaluatorOutcomes :
                               metrics_tracker' = _handle_move_metrics(metrics_tracker, handled.board # board, how)
               /\ player_result' = NoPlayerResult
               /\ UNCHANGED <<max_num_moves, close_calls, requests>>
               /\ UNCHANGED <<turn_vars, engine_vars, fn_vars>>

\* the loop of play() ends: the game is finished, or the ply cap makes it a draw
PlayLeavesLoop == /\ game_pc = "LOOP"
                  /\ loop_head(_outcome, board, num_moves, max_num_moves) # "make_move"
                  /\ _outcome' = IF loop_head(_outcome, board, num_moves, max_num_moves) = "finished"
                                 THEN game_outcome(_outcome, board)
                                 ELSE GameOutcome("VARIANT_DRAW", "None")
                  /\ game_pc' = "FINALLY"
                  /\ UNCHANGED <<boards, num_moves, max_num_moves, player_result, close_calls, propagated, requests>>
                  /\ UNCHANGED <<turn_vars, engine_vars, fn_vars, metrics_tracker>>

\* the finally block of play(): the players are closed, play() returns or
\* lets the exception of the player out
PlayFinally == /\ game_pc = "FINALLY"
               /\ \E white_close \in CloseOutcomes, black_close \in CloseOutcomes :
                  \E cleaned \in {_cleanup_players(close_calls, white_close, black_close)} :
                         /\ close_calls' = cleaned.close_calls
                         /\ game_pc' = IF cleaned.error # "None" \/ propagated # "None" THEN "RAISED" ELSE "RETURNED"
                         /\ propagated' = IF cleaned.error # "None" THEN cleaned.error ELSE propagated
               /\ \E how \in CloseOutcomes : metrics_tracker' = _cleanup_tracker(metrics_tracker, how)
               /\ UNCHANGED <<boards, _outcome, num_moves, max_num_moves, player_result, requests>>
               /\ UNCHANGED <<turn_vars, engine_vars, fn_vars>>

GameNext == CallMakeMove \/ MakeMoveReturns \/ CallPlay \/ PlayAsks \/ PlayHandles \/ PlayLeavesLoop \/ PlayFinally

GameSpec == GameInit /\ [][GameNext]_vars

\* play() on its own, called once by the client; a player that was asked
\* returns or raises, and play() runs on
PlayNext == CallPlay \/ PlayAsks \/ PlayHandles \/ PlayLeavesLoop \/ PlayFinally

PlaySpec == GameInit /\ [][PlayNext]_vars /\ WF_vars(PlayAsks) /\ WF_vars(PlayHandles) /\ WF_vars(PlayLeavesLoop) /\ WF_vars(PlayFinally)


(***************************************************************************)
(* Properties of the game loop                                             *)
(***************************************************************************)

PlayerCallPending == game_pc \in {"MAKE_MOVE", "PLAY_MAKE_MOVE"}

\* C12: the decision logic of an agent never runs on a position with zero
\* legal moves: the context of a call is built from the position of the game,
\* a context with an empty legal-move list fails with a ValueError before
\* _make_decision is entered, and play() never asks on such a position at all.
C12_NoDecisionOnZeroLegalMoves ==
    PlayerCallPending =>
        /\ player_result.legal = get_legal_moves_in_uci(board)
        /\ player_result.ran => player_result.legal # {}
        /\ player_result.legal = {} => player_result = PlayerRaised(FALSE, {}, "ValueError")
        /\ game_pc = "PLAY_MAKE_MOVE" => player_result.legal # {}

\* make_move() was called on the mated position and the context failed
C12_Witness ==
    /\ game_pc = "MAKE_MOVE"
    /\ is_checkmate(board)
    /\ player_result = PlayerRaised(FALSE, {}, "ValueError")

LastAsked == requests[Len(requests)].color

ResignationPending == PlayerCallPending /\ player_result.kind = "decision" /\ player_result.action = "resign"

\* C13: when the agent that was asked returns action=resign, make_move records
\* a loss for that agent with its opponent as the winner and leaves the move
\* stack of the board as it was; inside play() the move is counted and the
\* loop is left at its next test without another decision request.
C13_ResignationIsALossForTheResigner ==
    [][ResignationPending =>
          /\ _outcome' = GameOutcome("VARIANT_LOSS", Opponent(LastAsked))
          /\ LastAsked = current_player(board)
          /\ board' = board
          /\ game_pc = "PLAY_MAKE_MOVE" =>
                /\ game_pc' = "LOOP"
                /\ loop_head(_outcome', board', num_moves', max_num_moves') = "finished"]_vars

\* black resigned in play() after white's first move
C13_Witness ==
    /\ game_pc = "LOOP"
    /\ board = <<"f2f3">>
    /\ num_moves = 2
    /\ _outcome = GameOutcome("VARIANT_LOSS", "white")

MoveErrorPending ==
    /\ game_pc = "PLAY_MAKE_MOVE"
    /\ player_result.kind = "decision"
    /\ player_result.action = "move"
    /\ ~parse_attempted_move_at(board, player_result.attempted_move.text).ok

PlayOver == game_pc \in {"FINALLY", "RETURNED", "RAISED"}

PlayRequests == Cardinality({i \in 1..Len(requests) : requests[i].in_play})

InCappedPlay == game_pc \in {"LOOP", "PLAY_MAKE_MOVE", "FINALLY", "RETURNED", "RAISED"} /\ max_num_moves.some

DrawByCap == GameOutcome("VARIANT_DRAW", "None")

\* C15: play(max_num_moves=m) asks for at most m decisions; at the head of
\* the loop an unfinished game with fewer than m processed decisions asks for
\* the next one, a finished game (natural outcome, resignation) leaves the
\* loop with its outcome as it stands, also when it finished on the m-th
\* decision, and an unfinished game leaves the loop only with m processed
\* decisions and then as a draw without a winner; an outcome that is set is
\* not replaced; and every play() with a cap comes to its end.
C15_PlyCapDrawsOnlyUnfinishedGames ==
    /\ [](InCappedPlay => PlayRequests <= max_num_moves.value /\ num_moves <= PlayRequests)
    /\ [][InCappedPlay /\ game_pc = "LOOP" /\ game_pc' # "LOOP" =>
            IF finished(_outcome, board)
            THEN game_pc' = "FINALLY" /\ _outcome' = game_outcome(_outcome, board) /\ _outcome' # DrawByCap
            ELSE IF num_moves = max_num_moves.value
            THEN game_pc' = "FINALLY" /\ _outcome' = DrawByCap /\ PlayRequests = max_num_moves.value
            ELSE game_pc' = "PLAY_MAKE_MOVE" /\ _outcome' = _outcome]_vars
    /\ [][InCappedPlay /\ _outcome # NoGameOutcome => _outcome' = _outcome]_vars
    /\ (InCappedPlay ~> game_pc \in {"RETURNED", "RAISED"})

\* the mate on the fourth decision of play(max_num_moves=4) stands
C15_Witness ==
    /\ game_pc = "RETURNED"
    /\ max_num_moves = Cap(4)
    /\ num_moves = 4
    /\ PlayRequests = 4
    /\ _outcome = GameOutcome("CHECKMATE", "black")

PlayLeft == game_pc \in {"RETURNED", "RAISED"}

\* C16: when play() has returned or has let an exception out, close() has been
\* called on the white and on the black player (once each, in the finally
\* block), whatever ended the game; as long as play() runs neither is closed.
C16_BothPlayersClosedWhenPlayEnds ==
    /\ PlayLeft => close_calls.white = 1 /\ close_calls.black = 1
    /\ ~PlayLeft => close_calls.white = 0 /\ close_calls.black = 0

\* play() let the timeout of a player out after closing both players
C16_Witness ==
    /\ game_pc = "RAISED"
    /\ propagated = "TimeoutError"
    /\ _outcome = NoGameOutcome
    /\ close_calls = [white |-> 1, black |-> 1]

PlayerIsAsked == ~PlayerCallPending /\ PlayerCallPending'

\* C17: a decision request hands the agent a copy of the board: whatever the
\* agent does to the board it was given, the move stack of the game's board
\* (and with it position, side to move and history) is after the request what
\* it was before; it changes only when make_move applies the returned move to
\* the position the request was made on.
C17_AgentsCannotChangeTheGameBoard ==
    [][/\ PlayerIsAsked => board' = board
       /\ board' # board =>
             /\ PlayerCallPending
             /\ player_result.kind = "decision"
             /\ player_result.action = "move"
             /\ player_result.legal = get_legal_moves_in_uci(board)
             /\ board' = push(board, parse_attempted_move_at(board, player_result.attempted_move.text).uci)]_vars

\* the agent emptied the board it was given; the game's board keeps its moves
C17_Witness ==
    /\ PlayerCallPending
    /\ player_result.ran
    /\ boards.handed = <<>>
    /\ board = <<"f2f3", "e7e5">>

PlayerErrorPending ==
    /\ game_pc = "PLAY_MAKE_MOVE"
    /\ player_result.kind = "raised"
    /\ player_result.error \notin ForfeitErrors

\* C18: an exception a player raises inside play() that is none of the three
\* move errors leaves play() as the same exception: the step that catches it
\* sets no outcome, changes no board and goes to the finally block, which
\* keeps the exception; when play() has raised, the game has no outcome, and
\* when play() has returned, nothing was raised and the game has one.
C18_PlayerExceptionsLeavePlayUnchanged ==
    /\ [][/\ PlayerErrorPending =>
                /\ propagated' = player_result.error
                /\ _outcome' = NoGameOutcome
                /\ board' = board
                /\ game_pc' = "FINALLY"
          /\ game_pc = "FINALLY" => propagated' = propagated /\ _outcome' = _outcome]_vars
    /\ [](game_pc = "RAISED" =>
                /\ propagated \in PlayerErrors \cup {"ValueError"}
                /\ game_outcome(_outcome, board) = NoGameOutcome)
    /\ [](game_pc = "RETURNED" => propagated = "None" /\ _outcome # NoGameOutcome)

\* the connection error of black's player left play() after white's first move
C18_Witness ==
    /\ game_pc = "RAISED"
    /\ propagated = "ConnectionError"
    /\ board = <<"f2f3">>
    /\ _outcome = NoGameOutcome
    /\ requests[Len(requests)] = [color |-> "black", in_play |-> TRUE]

ConsistentDecision(action, attempted_move) ==
    /\ action \in PlayerActions
    /\ action = "move" <=> attempted_move.some /\ attempted_move.text # ""
    /\ action = "resign" <=> ~attempted_move.some

\* C19: every decision a player call gives back to the game has a non-empty
\* move text exactly when its action is move and no move text exactly when its
\* action is resign; and constructing a PlayerDecision from any action and any
\* optional text gives the decision with these very fields when they are
\* consistent and raises a ValueError when they are not.
C19_DecisionsAreConsistent ==
    /\ player_result.kind = "decision" => ConsistentDecision(player_result.action, player_result.attempted_move)
    /\ \A a \in AgentActions, t \in AgentTexts :
          ConstructDecision(player_result.legal, a, t) =
              IF ConsistentDecision(a, t)
              THEN PlayerReturned(player_result.legal, a, t)
              ELSE PlayerRaised(TRUE, player_result.legal, "ValueError")

\* the construction of a decision inside _make_decision was rejected
C19_Witness ==
    /\ PlayerCallPending
    /\ player_result = PlayerRaised(TRUE, get_legal_moves_in_uci(board), "ValueError")

\* C19, for the decisions the LLM turn returns: the move text of a returned
\* move is the non-empty coordinate text assigned after validation, a
\* resignation carries none.
C19_HoldsForTheLLMTurn ==
    outcome.kind = "returned" =>
        /\ outcome.decision.action \in PlayerActions
        /\ outcome.decision.action = "move" <=> outcome.decision.attempted_move.some /\ Len(outcome.decision.attempted_move.text) > 0
        /\ outcome.decision.action = "resign" <=> ~outcome.decision.attempted_move.some

(***************************************************************************)
(* The engine subprocess of a StockfishPlayer                              *)
(***************************************************************************)

\* bound of the model: the calls made on one player
MaxEngineOps == 4

\* StockfishPlayer.engine: None or the SimpleEngine of the subprocess `pid`
NoEngine == [some |-> FALSE, pid |-> 0]

EngineOf(pid) == [some |-> TRUE, pid |-> pid]

\* the player and its subprocesses after a call, and what the call raised
EngineState(ref, alive, count, raised) == [engine |-> ref, running |-> alive, spawned |-> count, raised |-> raised]

\* what the calls into chess.engine may do
PopenOutcomes == {"started", "raises"}

ConfigureOutcomes == {"configured", "raises"}

PlayOutcomes == {"move", "no_move", "raises"}

\* engine.quit(): the subprocess exits on the quit command; quit raises when
\* the subprocess is gone already, and when it does not exit within the
\* timeout, in which case it is still running
QuitOutcomes == {"exits", "raises"}

quit(ref, alive, how) == IF how = "exits" THEN alive \ {ref.pid} ELSE alive

\* StockfishPlayer._start_engine
_start_engine(ref, alive, count, popen, configure, quit_outcome) ==
    IF ref.some THEN EngineState(ref, alive, count, "None")
    ELSE IF popen = "raises" THEN EngineState(NoEngine, alive, count, "RuntimeError")
    ELSE IF configure = "configured" THEN EngineState(EngineOf(count + 1), alive \cup {count + 1}, count + 1, "None")
    ELSE EngineState(NoEngine, quit(EngineOf(count + 1), alive \cup {count + 1}, quit_outcome), count + 1, "RuntimeError")

\* engine.play and the construction of the decision in _make_decision
PlayWithEngine(started, how) ==
    IF started.raised # "None" THEN started
    ELSE IF started.engine.pid \notin started.running \/ how # "move" THEN [started EXCEPT !.raised = "RuntimeError"]
    ELSE started

\* StockfishPlayer._make_decision
stockfish_make_decision(ref, alive, count, popen, configure, quit_outcome, play) ==
    PlayWithEngine(_start_engine(ref, alive, count, popen, configure, quit_outcome), play)

\* StockfishPlayer.close
close_keeps_reference(ref, alive, count, quit_outcome) ==
    IF ref.some THEN EngineState(ref, quit(ref, alive, quit_outcome), count, "None")
    ELSE EngineState(ref, alive, count, "None")

close(ref, alive, count, quit_outcome) ==
    IF ref.some THEN EngineState(NoEngine, quit(ref, alive, quit_outcome), count, "None")
    ELSE EngineState(ref, alive, count, "None")

EngineCall(op, before, after) == [op |-> op, engine_before |-> before, raised |-> after.raised]

EngineInit == TurnNotStarted /\ GameConstructed /\ EngineConstructed /\ NothingApplied

\* a decision request on the player
EngineDecides ==
    /\ Len(engine_log) < MaxEngineOps
    /\ \E popen \in PopenOutcomes, configure \in ConfigureOutcomes, quit_outcome \in QuitOutcomes, play \in PlayOutcomes :
       \E after \in {stockfish_make_decision(engine, running, spawned, popen, configure, quit_outcome, play)} :
          /\ engine' = after.engine
          /\ running' = after.running
          /\ spawned' = after.spawned
          /\ engine_log' = Append(engine_log, EngineCall("decide", engine, after))
    /\ UNCHANGED <<turn_vars, game_vars, fn_vars>>

\* a call of close() on the player
EngineCloses ==
    /\ Len(engine_log) < MaxEngineOps
    /\ \E quit_outcome \in QuitOutcomes :
       \E after \in {close(engine, running, spawned, quit_outcome)} :
          /\ engine' = after.engine
          /\ running' = after.running
          /\ spawned' = after.spawned
          /\ engine_log' = Append(engine_log, EngineCall("close", engine, after))
    /\ UNCHANGED <<turn_vars, game_vars, fn_vars>>

\* a subprocess ends on its own
SubprocessExits ==
    /\ \E pid \in running : running' = running \ {pid}
    /\ UNCHANGED <<engine, spawned, engine_log>>
    /\ UNCHANGED <<turn_vars, game_vars, fn_vars>>

EngineNext == EngineDecides \/ EngineCloses \/ SubprocessExits

EngineSpec == EngineInit /\ [][EngineNext]_vars

(***************************************************************************)
(* Properties of the engine subprocess                                     *)
(***************************************************************************)

IsEngineCall(op) == engine_log' # engine_log /\ engine_log'[Len(engine_log')].op = op

LastCallRaised == engine_log'[Len(engine_log')].raised

\* a decision request starts a subprocess only when no engine is held; it
\* then holds the engine of the new subprocess or raises RuntimeError
StartsLazily ==
    /\ spawned' # spawned => IsEngineCall("decide") /\ ~engine.some /\ spawned' = spawned + 1
    /\ IsEngineCall("decide") /\ ~engine.some =>
          \/ LastCallRaised = "RuntimeError" /\ ~engine'.some
          \/ engine' = EngineOf(spawned + 1) /\ spawned' = spawned + 1 /\ spawned + 1 \in running'
    /\ IsEngineCall("decide") /\ engine.some => engine' = engine /\ spawned' = spawned

\* close() without an engine does nothing
CloseWithoutEngineIsNoOp ==
    IsEngineCall("close") /\ ~engine.some =>
        /\ LastCallRaised = "None"
        /\ UNCHANGED <<engine, running, spawned>>

\* C20: a StockfishPlayer has no engine and no subprocess after construction;
\* a subprocess is started by a decision request made while no engine is
\* held, the first one included; close() on a held engine stops its
\* subprocess, clears the reference and does not raise; close() with no
\* engine held (before any start, or again) neither raises nor changes
\* anything.
C20_CloseStopsTheEngine ==
    /\ [](engine_log = <<>> => spawned = 0 /\ ~engine.some /\ running = {})
    /\ [][/\ StartsLazily
          /\ CloseWithoutEngineIsNoOp
          /\ IsEngineCall("close") /\ engine.some =>
                /\ LastCallRaised = "None"
                /\ ~engine'.some
                /\ engine.pid \notin running']_vars

\* C20 without the stop of the subprocess when engine.quit() fails: close()
\* on a held engine clears the reference and does not raise, and the
\* subprocess is stopped or, quit having failed, is as it was.
C20_HoldsApartFromAFailedQuit ==
    /\ [](engine_log = <<>> => spawned = 0 /\ ~engine.some /\ running = {})
    /\ [][/\ StartsLazily
          /\ CloseWithoutEngineIsNoOp
          /\ IsEngineCall("close") /\ engine.some =>
                /\ LastCallRaised = "None"
                /\ ~engine'.some
                /\ engine.pid \notin running' \/ running' = running]_vars

(***************************************************************************)
(* play() of a game that collects move metrics                             *)
(***************************************************************************)

\* Game.__init__ with metrics: no tracker, a tracker without an evaluator
\* (Stockfish unavailable), or a tracker that holds an evaluator
Trackers == {NoTracker, Tracker("None"), Tracker("open")}

TrackedInit == /\ TurnNotStarted
               /\ EngineConstructed
               /\ NothingApplied
               /\ \E tracker \in Trackers : GameConstructedWith(tracker)

TrackedPlaySpec == TrackedInit /\ [][PlayNext]_vars

\* the step of play() in which record_move called the evaluator and the
\* evaluator raised
EvaluatorRaised ==
    /\ game_pc = "PLAY_MAKE_MOVE"
    /\ metrics_tracker.evaluator = "open"
    /\ metrics_tracker'.evaluate_calls = metrics_tracker.evaluate_calls + 1
    /\ metrics_tracker'.last_record = "evaluator_raised"

\* C21: when the evaluator raises while a move is recorded, nothing is
\* raised into the game, the move is on the board and play() goes back to
\* the head of its loop with no outcome set by the failure; the evaluator is
\* closed and dropped; and a tracker without an evaluator stays without one,
\* calls no evaluator and records nothing whatever is asked of it later.
C21_EvaluatorFailureDisablesMetricsOnly ==
    [][/\ EvaluatorRaised =>
            /\ propagated' = "None"
            /\ Len(board') = Len(board) + 1
            /\ SubSeq(board', 1, Len(board)) = board
            /\ num_moves' = num_moves + 1
            /\ _outcome' = _outcome
            /\ game_pc' = "LOOP"
            /\ metrics_tracker'.close_calls = metrics_tracker.close_calls + 1
            /\ metrics_tracker'.evaluator = "None"
       /\ metrics_tracker.attached /\ metrics_tracker.evaluator = "None" =>
            /\ metrics_tracker'.evaluator = "None"
            /\ metrics_tracker'.evaluate_calls = metrics_tracker.evaluate_calls
            /\ metrics_tracker'.recorded = metrics_tracker.recorded
            /\ metrics_tracker'.last_record \in {metrics_tracker.last_record, "skipped"}]_vars

\* the evaluator raised on one move, and a later move was played and handed
\* to the disabled tracker
C21_Witness ==
    /\ metrics_tracker.last_record = "skipped"
    /\ metrics_tracker.evaluate_calls >= 1
    /\ metrics_tracker.close_calls = 1
    /\ metrics_tracker.recorded < metrics_tracker.evaluate_calls
    /\ game_pc = "LOOP"

(***************************************************************************)
(* The turn of an LLM player whose handler overrides the parsing           *)
(***************************************************************************)

\* BaseLLMMoveHandler.parse_decision_from_response only builds decisions of
\* action "move".  LLMPlayer takes any handler; a subclass may override the
\* method and hand back a resignation, or a decision whose action was set to
\* a value outside the Literal (assignment is not validated).
HandlerActions == {"move", "resign", "offer_draw"}

\* the override: the base parsing, or a decision of the chosen action
parse_decision_override(response, action) ==
    IF action = "move" THEN DecisionOf[response]
    ELSE ParseOk(PlayerDecision(action, None, Some(response)))

\* the decisions list under the override, in completion order
RECURSIVE OverriddenDecisions(_, _)
OverriddenDecisions(texts, actions) ==
    IF texts = <<>> THEN <<>>
    ELSE (IF parse_decision_override(Head(texts), Head(actions)).ok
          THEN <<parse_decision_override(Head(texts), Head(actions)).decision>>
          ELSE <<>>) \o OverriddenDecisions(Tail(texts), Tail(actions))

\* the completions are parsed by the overriding handler and voted on
ParseAndVoteOverridden ==
    /\ pc = "PARSE_AND_VOTE"
    /\ \E actions \in [1..Len(responses) -> HandlerActions] :
       \E voted \in {vote_on_decisions(OverriddenDecisions(responses, actions), responses)} :
             IF voted.raised = "None"
             THEN /\ decision' = voted.decision
                  /\ last_move_attempts' = attempt + 1
                  /\ last_move_decision' = voted.decision
                  /\ pc' = "VALIDATE"
                  /\ outcome' = outcome
             ELSE /\ outcome' = Escaped(voted.raised)
                  /\ pc' = "RAISED"
                  /\ UNCHANGED <<decision, last_move_attempts, last_move_decision>>
    /\ UNCHANGED <<max_move_retries, num_votes, attempt, prompt, responses, query_history, attempt_log, turn_count, context, retry_prompts>>
    /\ UNCHANGED <<game_vars, engine_vars, fn_vars>>

OverriddenNext == BuildPrompt \/ QueryReturns \/ QueryRaises \/ ParseAndVoteOverridden \/ Validate

\* the players of this specification ask for at most this many completions
MaxOverriddenVotes == 2

OverriddenInit == Init /\ num_votes <= MaxOverriddenVotes

OverriddenSpec == OverriddenInit /\ [][OverriddenNext]_vars

\* the selected decision has an action the player does not support
UnsupportedSelected == pc = "VALIDATE" /\ decision.action \notin {"move", "resign"}

\* C22: a selected decision whose action is neither move nor resign ends
\* the turn at once with a resignation: the prompt is not rewritten, the
\* attempt counter does not move and the connector is not queried again.
C22_UnsupportedActionResignsAtOnce ==
    /\ [][UnsupportedSelected =>
             /\ pc' = "RETURNED"
             /\ outcome' = Returned(ResignDecision)
             /\ last_move_decision' = ResignDecision
             /\ prompt' = prompt
             /\ attempt' = attempt
             /\ query_history' = query_history]_vars
    /\ [][pc = "RETURNED" => pc' = "RETURNED" /\ query_history' = query_history]_vars

\* an unsupported action was selected on an attempt that still had retries
\* left, and the turn has returned the resignation
C22_Witness ==
    /\ pc = "RETURNED"
    /\ attempt_log # <<>>
    /\ attempt_log[Len(attempt_log)].error = "NotImplementedError"
    /\ attempt_log[Len(attempt_log)].decision.action = "offer_draw"
    /\ attempt + 1 < max_attempts(max_move_retries)
    /\ outcome = Returned(ResignDecision)

(***************************************************************************)
(* The move normalizer applied to single tokens                            *)
(***************************************************************************)

\* the moves of board_in_fen after which the black king is attacked
\* (board.gives_check): the queen or rook from a8, the rook on h8
gives_check(m) ==
    \/ m.from_square = <<"a", "7">> /\ m.promotion \in {"q", "r"}
    \/ m.piece = "r" /\ m.to_square = <<"h", "8">>

\* the other legal moves of the same piece type to the same square
SanRivals(m) == {l \in legal_moves : l.piece = m.piece /\ l.to_square = m.to_square /\ l.from_square # m.from_square}

\* the from-file, from-rank or from-square that tells m from its rivals
SanDisambiguation(m) ==
    IF SanRivals(m) = {} THEN <<>>
    ELSE IF \A l \in SanRivals(m) : l.from_square[1] # m.from_square[1] THEN <<m.from_square[1]>>
    ELSE IF \A l \in SanRivals(m) : l.from_square[2] # m.from_square[2] THEN <<m.from_square[2]>>
    ELSE m.from_square

\* Board.san of a legal move of board_in_fen, where nothing can be captured
\* and no move mates
san(m) ==
    IF IsKingsideCastling(m) THEN <<"O", "-", "O">>
    ELSE IF IsQueensideCastling(m) THEN <<"O", "-", "O", "-", "O">>
    ELSE (IF m.piece = "p" THEN <<>> ELSE <<UpperChar(m.piece)>> \o SanDisambiguation(m))
         \o m.to_square
         \o (IF m.promotion # "" THEN <<"=", UpperChar(m.promotion)>> ELSE <<>>)
         \o (IF gives_check(m) THEN <<"+">> ELSE <<>>)

\* the squares a token starts from: those of the white men, of the black
\* king, and an empty one
FromSquares == {<<"e", "1">>, <<"h", "1">>, <<"b", "1">>, <<"f", "3">>, <<"e", "2">>, <<"a", "7">>, <<"e", "8">>, <<"d", "4">>}

Squares == {<<f, r>> : f \in FILE_NAMES, r \in RANK_NAMES}

\* from-square, to-square and a fifth character: nothing, a piece symbol of
\* chess.PIECE_SYMBOLS, or an upper-case or foreign letter
CoordinateTokens == {from \o to \o fifth : from \in FromSquares, to \in Squares, fifth \in {<<>>, <<"p">>, <<"n">>, <<"b">>, <<"r">>, <<"q">>, <<"k">>, <<"Q">>, <<"x">>}}

\* null-move spellings, drops, and texts that are no move at all
OtherTokens == NullSan \cup {<<"P", "@", "e", "4">>, <<"Q", "@", "a", "8">>, <<"x", "y", "z">>, <<"Z", "9">>, <<"N", "d", "2">>, <<"N", "d", "5">>, <<"o", "-", "o">>, <<"0", "-", "0">>, <<" ", "O", "-", "O", " ">>, <<"O", "-", "O", "-", "O">>}

NormalizerInputs == CoordinateTokens \cup OtherTokens \cup {san(m) : m \in legal_moves}

NormalizerInit == /\ TurnNotStarted
                  /\ GameConstructed
                  /\ EngineConstructed
                  /\ fn_input \in NormalizerInputs
                  /\ fn_pc = "GIVEN"
                  /\ fn_output = <<>>

\* parse_attempted_move_to_uci(fn_input, board_in_fen)
Normalize == /\ fn_pc = "GIVEN"
             /\ fn_output' = <<parse_attempted_move_to_uci(fn_input)>>
             /\ fn_pc' = "NORMALIZED"
             /\ UNCHANGED <<fn_input, turn_vars, game_vars, engine_vars>>

\* the normalizer applied to what it returned
NormalizeAgain == /\ fn_pc = "NORMALIZED"
                  /\ fn_output[1].ok
                  /\ fn_output' = Append(fn_output, parse_attempted_move_to_uci(fn_output[1].uci))
                  /\ fn_pc' = "RENORMALIZED"
                  /\ UNCHANGED <<fn_input, turn_vars, game_vars, engine_vars>>

NormalizerNext == Normalize \/ NormalizeAgain

NormalizerSpec == NormalizerInit /\ [][NormalizerNext]_vars

\* the try block of the normalizer got a move out of Move.from_uci, and the
\* move is not among the legal ones
ParsedButIllegal(t) == from_uci(t).ok /\ ~is_legal(from_uci(t).move)

\* C23: a token that parses as a coordinate move and is no legal move of the
\* position makes the normalizer fail with IllegalMoveError: it does not
\* succeed, and it fails with no other error.
C23_IllegalCoordinateMoveIsIllegal ==
    fn_pc = "NORMALIZED" /\ ParsedButIllegal(fn_input) =>
        ~fn_output[1].ok /\ fn_output[1].error = "IllegalMoveError"

\* the tokens Move.from_uci reads and SAN_REGEX does not: a promotion to a
\* pawn, a drop, the null move
OutsideSan(t) == from_uci(t).ok /\ (from_uci(t).move.promotion = "p" \/ from_uci(t).move.drop # "" \/ from_uci(t).move = NullMove)

\* C23 for the tokens that both readings understand: an illegal coordinate
\* move that SAN_REGEX matches too fails with IllegalMoveError
C23_HoldsWhereSanReadsTheToken ==
    fn_pc = "NORMALIZED" /\ ParsedButIllegal(fn_input) /\ ~OutsideSan(fn_input) =>
        ~fn_output[1].ok /\ fn_output[1].error = "IllegalMoveError"

\* C24: for every legal move M of the position, the normalizer turns M's
\* coordinate form and M's SAN form into M's coordinate form; and whatever
\* the normalizer returns, it returns again when given it.
C24_BothSpellingsGiveTheCoordinateForm ==
    /\ \A m \in legal_moves :
          fn_pc # "GIVEN" /\ fn_input \in {uci(m), san(m)} =>
              fn_output[1].ok /\ fn_output[1].uci = uci(m)
    /\ fn_pc = "RENORMALIZED" => fn_output[2].ok /\ fn_output[2].uci = fn_output[1].uci

\* the SAN form of a legal move, here a disambiguated knight move, was
\* normalized twice
C24_Witness ==
    /\ fn_pc = "RENORMALIZED"
    /\ fn_input = <<"N", "b", "d", "2">>
    /\ fn_output[2].uci = <<"b", "1", "d", "2">>

(***************************************************************************)
(* The extractor and the sanitizer applied to single texts                 *)
(***************************************************************************)

\* spellings of the marker phrases as a model writes them
MarkerSpellings == {<<"F", "i", "n", "a", "l", " ", "A", "n", "s", "w", "e", "r", ":">>, <<"F", "I", "N", "A", "L", " ", "A", "N", "S", "W", "E", "R", ":">>, <<"T", "h", "e", " ", "f", "i", "n", "a", "l", " ", "a", "n", "s", "w", "e", "r", " ", "i", "s">>, <<"m", "y", " ", "f", "i", "n", "a", "l", " ", "a", "n", "s", "w", "e", "r", " ", "i", "s">>}

AnswerTokens == {<<"e", "4">>, <<"d", "4">>, <<"N", "f", "3">>}

\* responses that give an answer twice, each after a marker phrase
TwoMarkerResponses == {first \o <<" ">> \o early \o <<".", " ">> \o second \o <<" ">> \o late : first \in MarkerSpellings, second \in MarkerSpellings, early \in AnswerTokens, late \in AnswerTokens}

\* the longest text made of ShortChars among the marker-less responses
MaxShortLen == 3

ShortChars == {"e", "4", "z", " "}

\* responses without a marker phrase: every short text over a few
\* characters, and some longer ones around the length bound
MarkerlessResponses == UNION {[1..k -> ShortChars] : k \in 0..MaxShortLen} \cup {<<"h", "e", "l", "l", "o">>, <<"u", "m">>, <<"i", "n", "v", "a", "l", "i", "d">>, <<"N", "f", "3">>, <<"O", "-", "O">>, <<"e", "2", "e", "4">>, <<"I", " ", "t", "h", "i", "n", "k", " ", "e", "4", " ", "i", "s", " ", "g", "o", "o", "d">>, <<"e", "2", "e", "4", "e", "2", "e", "4", "e", "2">>, <<"e", "2", "e", "4", "e", "2", "e", "4", "e", "2", "e">>, <<"z", "z", "z", "z", "z", "z", "z", "z", "z", "z">>, <<" ", " ", "e", "4", "\n">>, <<"e", "x", "d", "6", "e", "p">>}

\* the castling spellings as a model answers with them
CastlingSpellings == {<<"O", " ", "-", " ", "O">>, <<"o", "-", "o">>, <<"0", "-", "0">>, <<"O", "-", "O">>}

CastlingAnswers == {<<"F", "i", "n", "a", "l", " ", "A", "n", "s", "w", "e", "r", ":", " ">> \o spelling \o dot : spelling \in CastlingSpellings, dot \in {<<>>, <<".">>}}

\* tokens that start with a move number, or with digits that are none
NumberedTokens == {digits \o dots \o gap \o rest : digits \in {<<"1">>, <<"2", "5">>, <<"0">>}, dots \in {<<>>, <<".">>, <<".", ".", ".">>}, gap \in {<<>>, <<" ">>}, rest \in {<<>>, <<"e", "4">>, <<"N", "f", "6">>, <<"e", "4", "!">>, <<"?">>, <<"-", "0">>, <<"e", "x", "d", "6", "e", "p">>, <<"2", ".", "e", "4">>}}

HandlerTexts == TwoMarkerResponses \cup MarkerlessResponses \cup CastlingAnswers \cup NumberedTokens \cup AnswerTokens

HandlerTextInit == /\ TurnNotStarted
                   /\ GameConstructed
                   /\ EngineConstructed
                   /\ fn_input \in HandlerTexts
                   /\ fn_pc = "GIVEN"
                   /\ fn_output = <<>>

\* _extract_raw_move_text(fn_input)
ExtractRaw == /\ fn_pc = "GIVEN"
              /\ fn_output' = <<extract_raw_move_text(fn_input)>>
              /\ fn_pc' = "EXTRACTED"
              /\ UNCHANGED <<fn_input, turn_vars, game_vars, engine_vars>>

\* _extract_decision_text goes on: _sanitize_move_text on the extracted text
SanitizeExtracted == /\ fn_pc = "EXTRACTED"
                     /\ fn_output' = Append(fn_output, sanitize_move_text(fn_output[1]))
                     /\ fn_pc' = "SANITIZED"
                     /\ UNCHANGED <<fn_input, turn_vars, game_vars, engine_vars>>

\* the decision text, when there is one, is validated by the player:
\* parse_attempted_move_to_uci(decision_text, board_in_fen)
NormalizeAnswer == /\ fn_pc = "SANITIZED"
                   /\ fn_output[2].some
                   /\ fn_output[2].text # <<>>
                   /\ fn_output' = Append(fn_output, parse_attempted_move_to_uci(fn_output[2].text))
                   /\ fn_pc' = "ANSWERED"
                   /\ UNCHANGED <<fn_input, turn_vars, game_vars, engine_vars>>

\* _sanitize_move_text(fn_input), the text taken as a token
SanitizeToken == /\ fn_pc = "GIVEN"
                 /\ fn_output' = <<sanitize_move_text(Some(fn_input))>>
                 /\ fn_pc' = "TOKEN_SANITIZED"
                 /\ UNCHANGED <<fn_input, turn_vars, game_vars, engine_vars>>

HandlerTextNext == ExtractRaw \/ SanitizeExtracted \/ NormalizeAnswer \/ SanitizeToken

HandlerTextSpec == HandlerTextInit /\ [][HandlerTextNext]_vars

\* the marker phrases that occur in the response, by their place in the list
MarkersIn(response) == {i \in 1..Len(markers) : RFind(Lower(response), markers[i]) # -1}

\* the marker phrase whose last occurrence starts latest in the response
LatestMarker(response) ==
    CHOOSE i \in MarkersIn(response) :
        \A j \in MarkersIn(response) : RFind(Lower(response), markers[j]) <= RFind(Lower(response), markers[i])

\* C25: from a response in which marker phrases occur more than once, the
\* extractor returns the token after the occurrence that comes last in the
\* text, whichever phrases of the list the occurrences are.
C25_TokenAfterTheLastMarker ==
    fn_pc = "EXTRACTED" /\ fn_input \in TwoMarkerResponses =>
        fn_output[1] = ExtractAtMarker(fn_input, LatestMarker(fn_input))

\* C25 for the responses whose last marker occurrence is of the phrase that
\* comes first in the list among those that occur: there the token after the
\* last occurrence is returned.
C25_HoldsWhenTheFirstListedPhraseComesLast ==
    fn_pc = "EXTRACTED" /\ fn_input \in TwoMarkerResponses
      /\ markers[FoundMarker(fn_input)] = markers[LatestMarker(fn_input)] =>
        fn_output[1] = ExtractAtMarker(fn_input, LatestMarker(fn_input))

\* a stripped response the fallback may take: short, not empty, no space
ShortAndSpaceFree(response_stripped) ==
    /\ Len(response_stripped) <= ShortResponseLen
    /\ response_stripped # <<>>
    /\ " " \notin Range(response_stripped)

\* C26: a response without a marker phrase is taken whole (stripped) as the
\* move exactly when it is at most 10 characters long, holds no space and is
\* made of move-like characters only; every other such response gives
\* nothing.
C26_FallbackTakesOnlyMoveLikeTexts ==
    fn_pc = "EXTRACTED" /\ MarkersIn(fn_input) = {} =>
        IF /\ ShortAndSpaceFree(Strip(fn_input, Whitespace))
           /\ \A c \in Range(Strip(fn_input, Whitespace)) : c \in MoveLikeChars
        THEN fn_output[1] = Some(Strip(fn_input, Whitespace))
        ELSE ~fn_output[1].some

\* C26 with the test the code makes on the characters: a short, space-free
\* response is taken whole exactly when at least one of its characters is
\* move-like.
C26_HoldsForOneMoveLikeCharacter ==
    fn_pc = "EXTRACTED" /\ MarkersIn(fn_input) = {} =>
        IF /\ ShortAndSpaceFree(Strip(fn_input, Whitespace))
           /\ \E c \in Range(Strip(fn_input, Whitespace)) : c \in MoveLikeChars
        THEN fn_output[1] = Some(Strip(fn_input, Whitespace))
        ELSE ~fn_output[1].some

\* C27: the castling spellings "O - O", "o-o" and "0-0", given as the answer
\* after the marker, come out of the extractor and the sanitizer as a text
\* that the normalizer reads as "O-O", and the normalizer turns it into the
\* king's move e1g1, kingside castling being legal in board_in_fen.
C27_CastlingSpellingsBecomeTheKingMove ==
    fn_input \in CastlingAnswers =>
        /\ fn_pc = "SANITIZED" => fn_output[2].some /\ NormalizeCastling(fn_output[2].text) = <<"O", "-", "O">>
        /\ fn_pc = "ANSWERED" => fn_output[3].ok /\ fn_output[3].uci = <<"e", "1", "g", "1">>

\* C27 for the spellings written with the letter O: they reach the
\* normalizer and become e1g1
C27_HoldsForTheLetterSpellings ==
    fn_input \in CastlingAnswers /\ "0" \notin Range(fn_input) =>
        /\ fn_pc = "SANITIZED" => fn_output[2].some /\ NormalizeCastling(fn_output[2].text) = <<"O", "-", "O">>
        /\ fn_pc = "ANSWERED" => fn_output[3].ok /\ fn_output[3].uci = <<"e", "1", "g", "1">>

\* a token that starts with a digit was sanitized
NumberedTokenSanitized == fn_pc = "TOKEN_SANITIZED" /\ fn_input # <<>> /\ Head(fn_input) \in Digits

\* <digits><one or more dots><rest>: the token goes on with a dot after its
\* leading digits
HasMoveNumber(token) == LStrip(token, Digits) # <<>> /\ Head(LStrip(token, Digits)) = "."

\* the rest of such a token: what follows the dots and the blanks after them
RestOf(token) == LStrip(LStrip(LStrip(token, Digits), {"."}), Whitespace)

\* C28 as stated: a digit-leading token is sanitized successfully only if it
\* is <digits><dots><rest> with a non-empty rest, and the result is that
\* rest; every other digit-leading token gives nothing.
C28_NumberedTokenGivesItsRest ==
    NumberedTokenSanitized /\ fn_output[1].some =>
        /\ HasMoveNumber(fn_input)
        /\ RestOf(fn_input) # <<>>
        /\ fn_output[1].text = RestOf(fn_input)

\* the steps every token goes through after the move number is gone: the
\* listed punctuation is deleted and a trailing "ep" is dropped
CleanedRest(token) == DropEnPassantSuffix(RemoveChars(RestOf(token), SanitizedAway))

\* C28, amended: a digit-leading token is sanitized successfully exactly
\* when it is <digits><dots><rest> and the rest is not emptied by the
\* sanitizer's remaining steps; the result is the rest after those steps,
\* stripped.  A token without the dots, a bare move number and a rest made of
\* punctuation give nothing.
C28_NumberedTokenGivesItsCleanedRest ==
    NumberedTokenSanitized =>
        IF HasMoveNumber(fn_input) /\ CleanedRest(fn_input) # <<>>
        THEN fn_output[1] = Some(Strip(CleanedRest(fn_input), Whitespace))
        ELSE ~fn_output[1].some

\* "1...Nf6" was sanitized to "Nf6"
C28_Witness ==
    /\ NumberedTokenSanitized
    /\ fn_input = <<"1", ".", ".", ".", "N", "f", "6">>
    /\ fn_output[1] = Some(<<"N", "f", "6">>)

(***************************************************************************)
(* The connector (LLMConnector.query)                                      *)
(***************************************************************************)

\* the most choices a provider response holds
MaxChoices == 3

\* choice.message.content: a text, or None
Contents == {Some(<<"F", "i", "n", "a", "l", " ", "A", "n", "s", "w", "e", "r", ":", " ", "e", "4">>), Some(<<"d", "4">>), None}

\* the exceptions litellm.completion raises: the classes of
\* litellm.exceptions the connector names, and any other Exception
ProviderExceptions == {"Timeout", "RateLimitError", "ServiceUnavailableError", "InternalServerError", "AuthenticationError", "InvalidRequestError", "BadRequestError", "ContentPolicyViolationError", "APIError", "APIConnectionError", "Exception"}

\* what litellm.completion does on a call with n: it raises, or it returns a
\* response with some choices (n is a request; drop_params lets a provider
\* that does not know n ignore it)
ProviderReturns(n, choices) == [n |-> n, raises |-> "None", choices |-> choices]

ProviderRaises(n, e) == [n |-> n, raises |-> e, choices |-> <<>>]

ProviderOutcomes == {ProviderReturns(n, choices) : n \in 1..MaxVotes, choices \in UNION {[1..k -> Contents] : k \in 0..MaxChoices}}
                    \cup {ProviderRaises(n, e) : n \in 1..MaxVotes, e \in ProviderExceptions}

\* the except clauses of query() in their order: the classes caught, the
\* exception raised instead
except_clauses == <<
    [catches |-> {"Timeout"}, raises |-> "TimeoutError"],
    [catches |-> {"RateLimitError", "ServiceUnavailableError", "InternalServerError"}, raises |-> "ConnectionError"],
    [catches |-> {"AuthenticationError", "InvalidRequestError", "BadRequestError", "ContentPolicyViolationError"}, raises |-> "ConnectionError"],
    [catches |-> {"APIError", "APIConnectionError"}, raises |-> "ConnectionError"],
    [catches |-> ProviderExceptions \cup {"ConnectionError"}, raises |-> "ConnectionError"] >>

\* variant: the chain ends before `except Exception`
raised_from_try_without_catch_all(e) ==
    IF \E i \in 1..(Len(except_clauses) - 1) : e \in except_clauses[i].catches
    THEN except_clauses[CHOOSE i \in 1..(Len(except_clauses) - 1) : e \in except_clauses[i].catches /\ \A j \in 1..(i - 1) : e \notin except_clauses[j].catches].raises
    ELSE e

\* the exception that leaves query() when e is raised in the try block: the
\* first clause that catches e decides
raised_from_try(e) ==
    IF \E i \in 1..Len(except_clauses) : e \in except_clauses[i].catches
    THEN except_clauses[CHOOSE i \in 1..Len(except_clauses) : e \in except_clauses[i].catches /\ \A j \in 1..(i - 1) : e \notin except_clauses[j].catches].raises
    ELSE e

QueryReturned(contents) == [raised |-> "None", contents |-> contents]

QueryRaised(e) == [raised |-> e, contents |-> <<>>]

\* the loop over response.choices: str(content) of each, a ConnectionError
\* raised in the try block at the first content that is None
contents_of(choices) ==
    IF \E i \in 1..Len(choices) : ~choices[i].some
    THEN QueryRaised(raised_from_try("ConnectionError"))
    ELSE QueryReturned([i \in 1..Len(choices) |-> choices[i].text])

\* LLMConnector.query(prompt, n) against a provider that behaves as given
query(provider) ==
    IF provider.raises # "None" THEN QueryRaised(raised_from_try(provider.raises))
    ELSE contents_of(provider.choices)

ConnectorInit == /\ TurnNotStarted
                 /\ GameConstructed
                 /\ EngineConstructed
                 /\ fn_input \in ProviderOutcomes
                 /\ fn_pc = "GIVEN"
                 /\ fn_output = <<>>

\* connector.query(prompt, n=fn_input.n)
Query == /\ fn_pc = "GIVEN"
         /\ fn_output' = <<query(fn_input)>>
         /\ fn_pc' = "QUERIED"
         /\ UNCHANGED <<fn_input, turn_vars, game_vars, engine_vars>>

ConnectorNext == Query

ConnectorSpec == ConnectorInit /\ [][ConnectorNext]_vars

\* C29: a query returns completions, or raises TimeoutError, or raises
\* ConnectionError, and nothing else; it raises TimeoutError exactly when the
\* provider call raised its Timeout, and ConnectionError for every other
\* exception of the provider call and for a choice without content.
C29_OnlyTimeoutOrConnectionErrorLeaveQuery ==
    fn_pc = "QUERIED" =>
        /\ fn_output[1].raised \in {"None", "TimeoutError", "ConnectionError"}
        /\ fn_output[1].raised = "TimeoutError" <=> fn_input.raises = "Timeout"
        /\ fn_output[1].raised = "ConnectionError" <=>
              \/ fn_input.raises \notin {"None", "Timeout"}
              \/ fn_input.raises = "None" /\ \E i \in 1..Len(fn_input.choices) : ~fn_input.choices[i].some

\* the provider call raised an exception of no class the connector names,
\* and a ConnectionError left the query
C29_Witness ==
    /\ fn_pc = "QUERIED"
    /\ fn_input.raises = "Exception"
    /\ fn_output[1].raised = "ConnectionError"

\* C30: a query that returns gives exactly n texts, those of the provider's
\* choices in the provider's order.
C30_ReturnsExactlyNCompletions ==
    fn_pc = "QUERIED" /\ fn_output[1].raised = "None" =>
        /\ Len(fn_output[1].contents) = fn_input.n
        /\ \A i \in 1..Len(fn_output[1].contents) : fn_output[1].contents[i] = fn_input.choices[i].text

\* C30 without the count: a query that returns gives one text per choice of
\* the provider's response, in the provider's order, however many were asked
\* for.
C30_HoldsForTheChoicesReturned ==
    fn_pc = "QUERIED" /\ fn_output[1].raised = "None" =>
        /\ Len(fn_output[1].contents) = Len(fn_input.choices)
        /\ \A i \in 1..Len(fn_output[1].contents) : fn_output[1].contents[i] = fn_input.choices[i].text

(***************************************************************************)
(* Construction of an LLMPlayer, then one turn                             *)
(***************************************************************************)

\* LLMPlayer.__init__ raises ValueError for num_votes < 1
num_votes_accepted_always(n) == TRUE

num_votes_accepted(n) == n >= 1

\* the num_votes a caller may pass to the constructor
RequestedVotes == -1..MaxOverriddenVotes

\* LLMPlayer(..., max_move_retries, num_votes): the player exists with the
\* values given, or the constructor raised and there is no player to ask
ConstructionInit == /\ max_move_retries \in 0..MaxRetries
                    /\ num_votes \in RequestedVotes
                    /\ pc = IF num_votes_accepted(num_votes) THEN "BUILD_PROMPT" ELSE "REJECTED"
                    /\ attempt = 0
                    /\ prompt = <<>>
                    /\ responses = <<>>
                    /\ decision = NoDecision
                    /\ outcome = IF num_votes_accepted(num_votes) THEN NoOutcome ELSE Escaped("ValueError")
                    /\ query_history = <<>>
                    /\ attempt_log = <<>>
                    /\ last_move_attempts = 0
                    /\ last_move_decision = NoDecision
                    /\ turn_count = 0
                    /\ context = model_dump
                    /\ retry_prompts = 0
                    /\ GameConstructed
                    /\ EngineConstructed
                    /\ NothingApplied

ConstructionSpec == ConstructionInit /\ [][Next]_vars

\* the connector calls made once the turn is at this point of its attempt
CallsDue == attempt + (IF pc \in {"REJECTED", "BUILD_PROMPT", "QUERY"} THEN 0 ELSE 1)

MaxTurns == 2

\* the game asks the player again: a new call of _make_decision, whose locals
\* are fresh; the player object keeps its diagnostics from the turn before
CallAgain == /\ pc \in {"RETURNED", "RAISED"}
             /\ turn_count < MaxTurns
             /\ pc' = "BUILD_PROMPT"
             /\ attempt' = 0
             /\ prompt' = <<>>
             /\ responses' = <<>>
             /\ decision' = NoDecision
             /\ outcome' = NoOutcome
             /\ query_history' = <<>>
             /\ attempt_log' = <<>>
             /\ retry_prompts' = 0
             /\ UNCHANGED <<max_move_retries, num_votes, last_move_attempts, last_move_decision, turn_count, context>>
             /\ UNCHANGED <<game_vars, engine_vars, fn_vars>>

TurnsInit == Init /\ num_votes <= MaxOverriddenVotes

TurnsNext == Next \/ CallAgain

TurnsSpec == TurnsInit /\ [][TurnsNext]_vars

\* the votes this turn has completed, and the decision of the latest of them
VotesCompleted == Len(attempt_log) + (IF pc = "VALIDATE" THEN 1 ELSE 0)

LatestDecision == IF VotesCompleted = 0 THEN NoDecision
                  ELSE IF pc = "VALIDATE" THEN decision
                  ELSE IF pc = "RETURNED" THEN outcome.decision
                  ELSE attempt_log[Len(attempt_log)].decision

\* C32: once a turn has returned a decision, last_move_attempts is the number
\* of connector queries of that turn and last_move_decision is the decision
\* returned; from the start of a turn on, both show only what this turn has
\* done so far (0 and no decision until its first vote), in whatever state an
\* earlier turn left them.
C32_DiagnosticsDescribeThisTurn == /\ pc = "RETURNED" => (last_move_attempts = Len(query_history) /\ last_move_decision = outcome.decision)
                                   /\ pc # "BUILD_PROMPT" => (last_move_attempts = VotesCompleted /\ last_move_decision = LatestDecision)

\* C32 witness: the second turn of a player returned a move after two queries
C32_Witness == /\ turn_count = 2
               /\ pc = "RETURNED"
               /\ Len(query_history) = 2
               /\ last_move_attempts = 2
               /\ outcome.decision.action = "move"
               /\ last_move_decision = outcome.decision

\* the fields of a PlayerDecisionContext
ContextFields == {"board_in_fen", "player_color", "legal_moves_in_uci", "move_history_in_uci", "time_remaining_in_seconds"}

\* C33: a turn leaves the decision context as it was given: the position
\* text, the colour, the legal-move list and the move history (and every other
\* field) have the values the context was built with, and no field was added,
\* whatever prompts were rendered from it.
C33_ContextIsLeftUnchanged == /\ DOMAIN context = ContextFields
                              /\ context["board_in_fen"] = <<board_in_fen>>
                              /\ context["player_color"] = <<player_color>>
                              /\ context["legal_moves_in_uci"] = model_dump["legal_moves_in_uci"]
                              /\ context["move_history_in_uci"] = model_dump["move_history_in_uci"]
                              /\ context["time_remaining_in_seconds"] = model_dump["time_remaining_in_seconds"]

\* C33 witness: a turn that rendered the first prompt and a retry prompt from
\* the context has returned
C33_Witness == /\ pc = "RETURNED"
               /\ retry_prompts = 1
               /\ Len(query_history) = 2
               /\ context = model_dump

(***************************************************************************)
(* The moves the game loop applies                                         *)
(***************************************************************************)

\* C34: every move the game loop applies is a legal move of the position it
\* is applied to: a step that changes the game's board pushes one move, and
\* that move is among the legal moves of the board before the step.
C34_EveryAppliedMoveIsLegal == [][board' # board => \E m \in get_legal_moves_in_uci(board) : board' = push(board, m)]_vars

\* C34, as far as it holds: the text is parsed before anything is pushed, and
\* what is pushed is one move, a legal one or the null move that the parser
\* returns for the text "--"
C34_HoldsApartFromTheNullMove == [][board' # board => \E m \in get_legal_moves_in_uci(board) \cup {NULL_MOVE} : board' = push(board, m)]_vars

\* play() is running: the loop, a call of make_move in it, the finally block
InPlay == game_pc \in {"LOOP", "PLAY_MAKE_MOVE", "FINALLY"}

\* C35: during play() the outcome is assigned at most once (a recorded outcome
\* is never replaced), and once the game has an outcome no step of play() asks
\* a player for a decision, applies a move or changes the outcome and with it
\* the winner; in particular play() on a game that is finished already asks
\* no player.
C35_FinishedGameStaysAsItIs ==
    [][InPlay =>
        /\ _outcome # NoGameOutcome => _outcome' = _outcome
        /\ game_outcome(_outcome, board) # NoGameOutcome =>
              /\ requests' = requests
              /\ board' = board
              /\ game_outcome(_outcome', board') = game_outcome(_outcome, board)]_vars

\* C35 witness: play() was called after white had resigned in a make_move()
\* of the client, and returned without asking anybody
C35_Witness == /\ game_pc = "RETURNED"
               /\ Len(requests) = 1
               /\ ~requests[1].in_play
               /\ _outcome = GameOutcome("VARIANT_LOSS", "black")
               /\ board = <<>>

\* the decision of the attempt at hand has the most votes of its batch, the
\* votes being counted on the action and the move text as extracted, and is
\* the earliest such decision of the batch
IsVoteWinner(d, decisions) ==
    \E i \in 1..Len(decisions) :
        /\ decisions[i] = d
        /\ \A j \in 1..Len(decisions) : votes_of(decisions, j) <= votes_of(decisions, i)
        /\ \A k \in 1..(i - 1) : votes_of(decisions, k) < votes_of(decisions, i)

\* C36: in each attempt exactly one decision is validated, and it is the vote
\* winner of the batch, the votes being counted on the extracted text (no
\* legality check comes first); when the winner fails validation the attempt
\* fails: the turn goes on to a retry, resigns or raises, and returns no move,
\* so no other candidate of the batch is validated or used instead.
C36_OnlyTheVoteWinnerIsValidated ==
    [][pc = "VALIDATE" =>
        /\ ParsedDecisions(responses) # <<>> => IsVoteWinner(decision, ParsedDecisions(responses))
        /\ Len(attempt_log') = Len(attempt_log) + 1
        /\ attempt_log'[Len(attempt_log')].decision = decision
        /\ attempt_log'[Len(attempt_log')].error = validate_player_decision_from_llm(decision).error
        /\ attempt_log'[Len(attempt_log')].error # "None" =>
              /\ pc' \in {"QUERY", "RETURNED", "RAISED"}
              /\ pc' = "RETURNED" => outcome'.decision = ResignDecision]_vars

\* C36 witness: a batch of an illegal and a legal move, one vote each; the
\* illegal one came first and is the decision to validate
C36_Witness == /\ pc = "VALIDATE"
               /\ Len(responses) = 2
               /\ DecisionOf[responses[1]].ok
               /\ DecisionOf[responses[2]].ok
               /\ decision = DecisionOf[responses[1]].decision
               /\ validate_player_decision_from_llm(decision).error = "IllegalMoveError"
               /\ validate_player_decision_from_llm(DecisionOf[responses[2]].decision).error = "None"

\* C37: a retry prompt is built only when another query follows it: while a
\* query is about to be issued the turn has built as many retry prompts as it
\* has issued queries, and at every other point after the first query, the
\* end of the turn included, one less than the queries issued.
C37_RetryPromptsAreQueriesMinusOne ==
    retry_prompts = IF pc \in {"BUILD_PROMPT", "QUERY"} THEN Len(query_history) ELSE Len(query_history) - 1

\* C37 witness: a turn of three queries ended in resignation with two retry prompts built
C37_Witness == /\ pc = "RETURNED"
               /\ outcome.decision = ResignDecision
               /\ Len(query_history) = 3
               /\ retry_prompts = 2

(***************************************************************************)
(* The clean-up at the end of play()                                       *)
(***************************************************************************)

\* C38: the clean-up of play() is independent for each holder: whichever of
\* the close() calls raise, close() is called on the white player, on the
\* black player and on the evaluator the metrics tracker holds, and no error
\* of a close() leaves play(): play() returns when the game ended without an
\* exception and lets that exception out, and no other, when it ended with one.
C38_CloseErrorsStayInTheCleanup ==
    [][game_pc = "FINALLY" =>
        /\ close_calls'.white = close_calls.white + 1
        /\ close_calls'.black = close_calls.black + 1
        /\ metrics_tracker.attached /\ metrics_tracker.evaluator # "None" => metrics_tracker'.close_calls = metrics_tracker.close_calls + 1
        /\ propagated' = propagated
        /\ game_pc' = IF propagated = "None" THEN "RETURNED" ELSE "RAISED"
        /\ _outcome' = _outcome]_vars

\* C38 witness: a player timed out, both players were closed, the close() of
\* the tracker's evaluator raised (the evaluator is still referenced), and
\* play() let the timeout out
C38_Witness == /\ game_pc = "RAISED"
               /\ propagated = "TimeoutError"
               /\ close_calls = [white |-> 1, black |-> 1]
               /\ metrics_tracker.attached
               /\ metrics_tracker.close_calls = 1
               /\ metrics_tracker.evaluator = "open"

(***************************************************************************)
(* The subprocesses a StockfishPlayer starts                               *)
(***************************************************************************)

\* a decision request in which _start_engine failed: no engine was held
\* before it and none is held after it
StartFailed == IsEngineCall("decide") /\ ~engine.some /\ ~engine'.some

\* C39: a StockfishPlayer holds at most one engine subprocess at any time: a
\* subprocess is started only by a decision request made while no engine is
\* held, the subprocesses running are at most the one of the held engine, and
\* when starting or configuring fails the subprocess just started is shut
\* down, the reference is empty and the request raises RuntimeError.
C39_AtMostOneSubprocess ==
    /\ [](running \subseteq (IF engine.some THEN {engine.pid} ELSE {}))
    /\ [][/\ spawned' # spawned => IsEngineCall("decide") /\ ~engine.some /\ spawned' = spawned + 1
          /\ StartFailed =>
                /\ LastCallRaised = "RuntimeError"
                /\ (spawned + 1) \notin running']_vars

\* C39, as far as it holds: one reference at most, a subprocess is started
\* only while no engine is held, a failed start leaves the reference empty and
\* raises RuntimeError, and the subprocess of a failed start is shut down
\* unless engine.quit() fails on it; a subprocess that runs without being
\* held is one whose quit failed
C39_HoldsApartFromAFailedQuit ==
    /\ [](engine.some => engine.pid \in 1..spawned)
    /\ [][/\ spawned' # spawned => IsEngineCall("decide") /\ ~engine.some /\ spawned' = spawned + 1
          /\ StartFailed =>
                /\ LastCallRaised = "RuntimeError"
                /\ running' \subseteq running \cup {spawned + 1}
          /\ running' \subseteq running \cup (IF engine'.some THEN {engine'.pid} ELSE IF StartFailed /\ spawned' # spawned THEN {spawned'} ELSE {})]_vars

====
